---------------------------- MODULE Spec2Model ----------------------------
(***************************************************************************)
(* A model of TailscaleController (src/tailscale_gui.py): the status       *)
(* snapshot queries, the exit-node resolver and the session operations.    *)
(*                                                                         *)
(* Python values are tagged records.  A Python string is a sequence of     *)
(* one-character strings, so that split(), "in" and str() are computed and *)
(* not assumed.  A Python dict is the sequence of its items in iteration   *)
(* order (json.loads keeps the document's order).  A raised exception is   *)
(* the pseudo-value EXC, which every primitive propagates.                 *)
(***************************************************************************)
EXTENDS Integers, Sequences, FiniteSets, TLC

VARIABLES
    status,   \* what `tailscale status --json` yields now: a StatusOutcome
    probe,    \* what the three reachability probes yield now
    op,       \* the controller operation that ran last ("none" at start)
    arg,      \* its argument (a Python value; PyNone when it takes none)
    ret,      \* what it returned (or EXC when it raised)
    cmds,     \* the external commands it launched, in order, with outcomes
    file,     \* the profiles file (profiles.json) as it is on disk
    win       \* the window: its widgets, main loop and worker threads

vars == <<status, probe, op, arg, ret, cmds, file, win>>

---------------------------------------------------------------------------
(* Python values *)

PyNone == [t |-> "none"]
PyBool(b) == [t |-> "bool", b |-> b]
PyInt(n) == [t |-> "int", n |-> n]
PyStr(s) == [t |-> "str", s |-> s]
PyList(l) == [t |-> "list", l |-> l]
PyDict(items) == [t |-> "dict", items |-> items]
EXC == [t |-> "exc"]
\* The call never returned: a command run without a timeout never ended.
Hung == [t |-> "hung"]

PyTrue == PyBool(TRUE)
PyFalse == PyBool(FALSE)
EmptyStr == PyStr(<<>>)
EmptyList == PyList(<<>>)
EmptyDict == PyDict(<<>>)

IsExc(v) == v.t = "exc"
IsDict(v) == v.t = "dict"
IsStr(v) == v.t = "str"

\* One item of a dict: key k (a character sequence) and value v.
Item(k, v) == <<[k |-> k, v |-> v]>>

\* bool(v): Python truthiness.
Truthy(v) ==
    CASE v.t = "none" -> FALSE
      [] v.t = "bool" -> v.b
      [] v.t = "int"  -> v.n # 0
      [] v.t = "str"  -> v.s # <<>>
      [] v.t = "list" -> v.l # <<>>
      [] v.t = "dict" -> v.items # <<>>

\* a == b.  bool is a subclass of int: True == 1 and False == 0.
AsInt(v) == IF v.t = "bool" THEN (IF v.b THEN 1 ELSE 0) ELSE v.n
PyEq(a, b) ==
    IF a.t \in {"bool", "int"} /\ b.t \in {"bool", "int"}
    THEN AsInt(a) = AsInt(b)
    ELSE a.t = b.t /\ a = b

\* a and b: the first falsy operand, else the last one.
PyAnd(a, b) == IF Truthy(a) THEN b ELSE a
\* a or b
PyOr(a, b) == IF Truthy(a) THEN a ELSE b

---------------------------------------------------------------------------
(* Strings *)

\* The literals of the source, spelled out.
L_Self == <<"S","e","l","f">>
L_Peer == <<"P","e","e","r">>
L_BackendState == <<"B","a","c","k","e","n","d","S","t","a","t","e">>
L_HaveNodeKey == <<"H","a","v","e","N","o","d","e","K","e","y">>
L_AuthURL == <<"A","u","t","h","U","R","L">>
L_DNSName == <<"D","N","S","N","a","m","e">>
L_HostName == <<"H","o","s","t","N","a","m","e">>
L_TailscaleIPs == <<"T","a","i","l","s","c","a","l","e","I","P","s">>
L_Online == <<"O","n","l","i","n","e">>
L_ID == <<"I","D">>
L_UserID == <<"U","s","e","r","I","D">>
L_ExitNodeOption == <<"E","x","i","t","N","o","d","e","O","p","t","i","o","n">>
L_ExitNodeID == <<"E","x","i","t","N","o","d","e","I","D">>
L_ExitNodeStatus == <<"E","x","i","t","N","o","d","e","S","t","a","t","u","s">>
L_Running == <<"R","u","n","n","i","n","g">>
L_Unknown == <<"U","n","k","n","o","w","n">>
L_Connected == <<"C","o","n","n","e","c","t","e","d">>

\* The index of the first occurrence of character c in s, 0 if there is none.
FirstIndex(s, c) ==
    IF \E i \in 1..Len(s) : s[i] = c
    THEN CHOOSE i \in 1..Len(s) : s[i] = c /\ \A j \in 1..(i - 1) : s[j] # c
    ELSE 0

\* s.split(c)[0]: what precedes the first c, all of s when it holds no c.
Split0(s, c) ==
    IF FirstIndex(s, c) = 0 THEN s ELSE SubSeq(s, 1, FirstIndex(s, c) - 1)

\* a in b, for two strings: a is a substring of b.
IsSubstr(a, b) ==
    \E i \in 0..(Len(b) - Len(a)) : SubSeq(b, i + 1, i + Len(a)) = a

\* repr() of a list or dict is not spelled out: it is some text in braces.
L_Repr == <<"{","}">>

\* str(v), as a character sequence.
StrOf(v) ==
    CASE v.t = "str"  -> v.s
      [] v.t = "none" -> <<"N","o","n","e">>
      [] v.t = "bool" -> IF v.b THEN <<"T","r","u","e">> ELSE <<"F","a","l","s","e">>
      [] v.t = "int"  -> IF v.n = 0 THEN <<"0">> ELSE <<"1">>
      [] v.t \in {"list", "dict"} -> L_Repr

---------------------------------------------------------------------------
(* Dict and sequence primitives; each yields EXC where Python raises *)

HasKey(d, k) == \E i \in 1..Len(d.items) : d.items[i].k = k
Lookup(d, k) == d.items[CHOOSE i \in 1..Len(d.items) : d.items[i].k = k].v

\* v.get(k, dflt): AttributeError on anything that is not a dict.
PyGet(v, k, dflt) ==
    IF ~IsDict(v) THEN EXC
    ELSE IF HasKey(v, k) THEN Lookup(v, k) ELSE dflt

\* v[k] for a string key k: KeyError or TypeError unless v is a dict holding k.
PyItem(v, k) == IF IsDict(v) /\ HasKey(v, k) THEN Lookup(v, k) ELSE EXC

\* `k in v` raises TypeError on None, a bool or a number.
InRaises(v) == v.t \notin {"dict", "list", "str"}
\* `k in v` for a string k, where it does not raise.
InHolds(k, v) ==
    CASE v.t = "dict" -> HasKey(v, k)
      [] v.t = "list" -> \E i \in 1..Len(v.l) : v.l[i] = PyStr(k)
      [] v.t = "str"  -> IsSubstr(k, v.s)
      [] OTHER -> FALSE

\* v[0] for a truthy v: the first element of a list, the first character of
\* a string; KeyError on a dict (JSON keys are strings), TypeError otherwise.
PyFirst(v) ==
    CASE v.t = "list" /\ v.l # <<>> -> v.l[1]
      [] v.t = "str" /\ v.s # <<>>  -> PyStr(<<v.s[1]>>)
      [] OTHER -> EXC

\* `for x in v` raises TypeError unless v is a list, a string or a dict.
Iterable(v) == v.t \in {"list", "str", "dict"}
\* What `for x in v` iterates over, for an iterable v.
PyIter(v) ==
    CASE v.t = "list" -> v.l
      [] v.t = "str"  -> [i \in 1..Len(v.s) |-> PyStr(<<v.s[i]>>)]
      [] v.t = "dict" -> [i \in 1..Len(v.items) |-> PyStr(v.items[i].k)]

---------------------------------------------------------------------------
(* The status query *)

\* What running `tailscale status --json` can yield.
StatusOk(v) == [out |-> "ok", json |-> v]
StatusExitNonzero == [out |-> "exit_nonzero", json |-> PyNone]
StatusBadJson == [out |-> "bad_json", json |-> PyNone]
StatusNotFound == [out |-> "not_found", json |-> PyNone]
\* The command never exits.
StatusHang == [out |-> "hang", json |-> PyNone]

\* get_status() catching the command's non-zero exit only.
get_status_JsonErrorEscapes(so) ==
    CASE so.out = "ok" -> so.json
      [] so.out = "exit_nonzero" -> PyNone
      [] so.out \in {"bad_json", "not_found"} -> EXC
      [] so.out = "hang" -> Hung

\* get_status(): the parsed document; None when the command exits non-zero or
\* prints invalid JSON; FileNotFoundError is not caught, and the command is
\* run without a timeout.
get_status(so) ==
    CASE so.out = "ok" -> so.json
      [] so.out \in {"exit_nonzero", "bad_json"} -> PyNone
      [] so.out = "not_found" -> EXC
      [] so.out = "hang" -> Hung

\* is_connected() without its test of AuthURL.
is_connected_body_NoAuthURL(st) ==
    IF IsExc(st) THEN EXC
    ELSE IF ~Truthy(st) THEN PyFalse
    ELSE LET backend_state == PyGet(st, L_BackendState, EmptyStr)
             have_node_key == PyGet(st, L_HaveNodeKey, PyFalse)
         IN  IF IsExc(backend_state) THEN EXC
             ELSE PyBool(Truthy(PyAnd(PyBool(PyEq(backend_state, PyStr(L_Running))),
                                      have_node_key)))

\* The body of is_connected() below its try.
is_connected_body(st) ==
    IF IsExc(st) THEN EXC
    ELSE IF ~Truthy(st) THEN PyFalse
    ELSE LET backend_state == PyGet(st, L_BackendState, EmptyStr)
             have_node_key == PyGet(st, L_HaveNodeKey, PyFalse)
             auth_url == PyGet(st, L_AuthURL, EmptyStr)
         IN  IF IsExc(backend_state) THEN EXC
             ELSE PyAnd(PyAnd(PyBool(PyEq(backend_state, PyStr(L_Running))),
                              have_node_key),
                        PyBool(PyEq(auth_url, EmptyStr)))

\* is_connected(): any exception becomes False.
is_connected(so) ==
    LET r == is_connected_body(get_status(so))
    IN  IF get_status(so) = Hung THEN Hung ELSE IF IsExc(r) THEN PyFalse ELSE r

\* dns_name.split('.')[0]: AttributeError unless dns_name is a string.
ShortName(dns_name) ==
    IF IsStr(dns_name) THEN PyStr(Split0(dns_name.s, ".")) ELSE EXC

get_current_user_body(st) ==
    IF IsExc(st) THEN EXC
    ELSE IF ~Truthy(st) THEN PyNone
    ELSE IF InRaises(st) THEN EXC
    ELSE IF ~InHolds(L_Self, st) THEN PyNone
    ELSE LET self_info == PyItem(st, L_Self)
             dns_name == PyGet(self_info, L_DNSName, EmptyStr)
             hostname == PyGet(self_info, L_HostName, EmptyStr)
         IN  IF IsExc(self_info) \/ IsExc(dns_name) THEN EXC
             ELSE IF Truthy(hostname) THEN hostname
             ELSE IF Truthy(dns_name) THEN ShortName(dns_name)
             ELSE PyStr(L_Connected)

\* get_current_user(): any exception becomes None.
get_current_user(so) ==
    LET r == get_current_user_body(get_status(so))
    IN  IF get_status(so) = Hung THEN Hung ELSE IF IsExc(r) THEN PyNone ELSE r

\* info.get('TailscaleIPs', ..)[0] if info.get('TailscaleIPs') else dflt,
\* for a dict info.
PrimaryIp(info, dflt) ==
    LET ips == PyGet(info, L_TailscaleIPs, EmptyList)
    IN  IF IsExc(ips) THEN EXC
        ELSE IF Truthy(ips) THEN PyFirst(ips) ELSE dflt

\* An entry of get_devices() that reports every device online.
DeviceEntry_AlwaysOnline(info, isSelf) ==
    LET name == PyGet(info, L_DNSName, PyStr(L_Unknown))
        ip == IF IsExc(name) THEN EXC ELSE PrimaryIp(info, PyStr(L_Unknown))
    IN  IF IsExc(name) \/ IsExc(ip) THEN EXC
        ELSE [t |-> "device", name |-> name, ip |-> ip, online |-> PyTrue,
              is_self |-> isSelf]

\* One entry of get_devices(); EXC when building it raises.
DeviceEntry(info, isSelf) ==
    LET name == PyGet(info, L_DNSName, PyStr(L_Unknown))
        ip == IF IsExc(name) THEN EXC ELSE PrimaryIp(info, PyStr(L_Unknown))
        online == IF isSelf THEN PyTrue ELSE PyGet(info, L_Online, PyFalse)
    IN  IF IsExc(name) \/ IsExc(ip) \/ IsExc(online) THEN EXC
        ELSE [t |-> "device", name |-> name, ip |-> ip, online |-> online,
              is_self |-> isSelf]

\* get_devices(): nothing in it is caught.
get_devices(so) ==
    LET st == get_status(so) IN
    IF st = Hung THEN Hung
    ELSE IF IsExc(st) THEN EXC
    ELSE IF ~Truthy(st) THEN EmptyList
    ELSE IF InRaises(st) THEN EXC
    ELSE
      LET hasSelf == InHolds(L_Self, st)
          self_info == IF hasSelf THEN PyItem(st, L_Self) ELSE PyNone
          selfRaises == hasSelf /\ (IsExc(self_info)
                                    \/ IsExc(DeviceEntry(self_info, TRUE)))
          hasPeer == InHolds(L_Peer, st)
          peers == IF hasPeer THEN PyItem(st, L_Peer) ELSE PyNone
          peerRaises == hasPeer /\ (~IsDict(peers)
                           \/ \E i \in 1..Len(peers.items) :
                                 IsExc(DeviceEntry(peers.items[i].v, FALSE)))
      IN  IF selfRaises \/ peerRaises THEN EXC
          ELSE PyList((IF hasSelf THEN <<DeviceEntry(self_info, TRUE)>> ELSE <<>>)
                      \o (IF hasPeer
                          THEN [i \in 1..Len(peers.items) |->
                                   DeviceEntry(peers.items[i].v, FALSE)]
                          ELSE <<>>))

\* set.add(v) raises TypeError on an unhashable value.
Hashable(v) == v.t \notin {"list", "dict"}

\* The UserID of one record, as a set of at most one value; EXC when
\* `'UserID' in info`, info['UserID'] or accounts.add() raises.
UserIdOf(info) ==
    IF InRaises(info) THEN EXC
    ELSE IF ~InHolds(L_UserID, info) THEN [t |-> "set", s |-> {}]
    ELSE LET u == PyItem(info, L_UserID)
         IN  IF IsExc(u) THEN EXC
             ELSE IF ~Hashable(u) THEN EXC
             ELSE [t |-> "set", s |-> {u}]

get_available_accounts_body(st) ==
    IF IsExc(st) THEN EXC
    ELSE IF ~Truthy(st) THEN [t |-> "set", s |-> {}]
    ELSE IF InRaises(st) THEN EXC
    ELSE
      LET hasSelf == InHolds(L_Self, st)
          selfSet == IF ~hasSelf THEN [t |-> "set", s |-> {}]
                     ELSE IF IsExc(PyItem(st, L_Self)) THEN EXC
                     ELSE UserIdOf(PyItem(st, L_Self))
          hasPeer == InHolds(L_Peer, st)
          peers == IF hasPeer THEN PyItem(st, L_Peer) ELSE PyNone
          peerSet == IF ~hasPeer THEN [t |-> "set", s |-> {}]
                     ELSE IF ~IsDict(peers) THEN EXC
                     ELSE IF \E i \in 1..Len(peers.items) :
                                IsExc(UserIdOf(peers.items[i].v))
                          THEN EXC
                     ELSE [t |-> "set",
                           s |-> UNION {UserIdOf(peers.items[i].v).s :
                                          i \in 1..Len(peers.items)}]
      IN  IF IsExc(selfSet) \/ IsExc(peerSet) THEN EXC
          ELSE [t |-> "set", s |-> selfSet.s \cup peerSet.s]

\* get_available_accounts(): list(accounts), whose order is the set's; any
\* exception becomes the empty list.
get_available_accounts(so) ==
    LET r == get_available_accounts_body(get_status(so))
    IN  IF get_status(so) = Hung THEN Hung
        ELSE IF IsExc(r) THEN [t |-> "set", s |-> {}] ELSE r

---------------------------------------------------------------------------
(* Exit-node candidates *)

\* The characters of the model's strings in code-point order.
CharOrder ==
    <<".", "/", "0", "1", "2", "3", "4", "5", "6", "7", "8", "9",
      "A", "B", "C", "D", "E", "F", "G", "H", "I", "J", "K", "L", "M",
      "N", "O", "P", "Q", "R", "S", "T", "U", "V", "W", "X", "Y", "Z",
      "a", "b", "c", "d", "e", "f", "g", "h", "i", "j", "k", "l", "m",
      "n", "o", "p", "q", "r", "s", "t", "u", "v", "w", "x", "y", "z",
      "{", "}">>
Ord(c) == CHOOSE i \in 1..Len(CharOrder) : CharOrder[i] = c

\* a < b for two strings: lexicographic by code point.
StrLess(a, b) ==
    \E i \in 1..(Len(b)) :
        /\ \A j \in 1..(i - 1) : j <= Len(a) /\ a[j] = b[j]
        /\ i - 1 <= Len(a)
        /\ (i > Len(a) \/ Ord(a[i]) < Ord(b[i]))

\* a < b for two sort keys, where Python defines it.
Comparable(a, b) ==
    \/ a.t = "str" /\ b.t = "str"
    \/ a.t \in {"bool", "int"} /\ b.t \in {"bool", "int"}
KeyLess(a, b) ==
    IF a.t = "str" THEN StrLess(a.s, b.s) ELSE AsInt(a) < AsInt(b)

\* The candidates left in the order they were collected.
SortByHostname_Unsorted(l) == l

\* list.sort(key=hostname) is stable: insert e after the last entry whose key
\* is not greater than e's.
RECURSIVE InsertSorted(_, _)
InsertSorted(sorted, e) ==
    IF sorted = <<>> THEN <<e>>
    ELSE IF KeyLess(e.hostname, sorted[Len(sorted)].hostname)
         THEN InsertSorted(SubSeq(sorted, 1, Len(sorted) - 1), e)
              \o <<sorted[Len(sorted)]>>
         ELSE Append(sorted, e)

RECURSIVE SortByHostname(_)
SortByHostname(l) ==
    IF l = <<>> THEN <<>>
    ELSE InsertSorted(SortByHostname(SubSeq(l, 1, Len(l) - 1)), l[Len(l)])

\* The filter without the capability flag.
CandidateEntry_AnyDevice(info, id, isSelf) ==
    LET dns_name == PyGet(info, L_DNSName, EmptyStr)
        ip == PrimaryIp(info, EmptyStr)
        can_be_exit_node == PyGet(info, L_ExitNodeOption, PyFalse)
    IN  IF ~Truthy(PyAnd(dns_name, ip)) THEN [t |-> "skip"]
        ELSE [t |-> "node",
              id |-> id,
              name |-> dns_name,
              ip |-> ip,
              hostname |-> PyGet(info, L_HostName, ShortName(dns_name)),
              is_self |-> isSelf,
              online |-> IF isSelf THEN PyTrue ELSE PyGet(info, L_Online, PyFalse),
              can_be_exit_node |-> can_be_exit_node]

\* What one device contributes to the candidates: [t |-> "skip"] when the
\* filter rejects it, EXC when building its entry raises, else the entry.
Skip == [t |-> "skip"]
CandidateEntry(info, id, isSelf) ==
    LET dns_name == PyGet(info, L_DNSName, EmptyStr)
        ip == IF IsExc(dns_name) THEN EXC ELSE PrimaryIp(info, EmptyStr)
        can_be_exit_node == PyGet(info, L_ExitNodeOption, PyFalse)
    IN  IF IsExc(dns_name) \/ IsExc(ip) THEN EXC
        ELSE IF ~Truthy(PyAnd(PyAnd(dns_name, ip), can_be_exit_node)) THEN Skip
        ELSE IF IsExc(ShortName(dns_name)) THEN EXC
        ELSE [t |-> "node",
              id |-> id,
              name |-> dns_name,
              ip |-> ip,
              hostname |-> PyGet(info, L_HostName, ShortName(dns_name)),
              is_self |-> isSelf,
              online |-> IF isSelf THEN PyTrue ELSE PyGet(info, L_Online, PyFalse),
              can_be_exit_node |-> can_be_exit_node]

\* The entries of seq that are not skipped, in order.
RECURSIVE Kept(_)
Kept(seq) ==
    IF seq = <<>> THEN <<>>
    ELSE IF seq[1].t = "skip" THEN Kept(Tail(seq))
    ELSE <<seq[1]>> \o Kept(Tail(seq))

get_available_exit_nodes_body(st) ==
    IF IsExc(st) THEN EXC
    ELSE IF ~Truthy(st) THEN EmptyList
    ELSE IF InRaises(st) THEN EXC
    ELSE
      LET hasSelf == InHolds(L_Self, st)
          self_info == IF hasSelf THEN PyItem(st, L_Self) ELSE PyNone
          selfEntry == IF IsExc(self_info) THEN EXC
                       ELSE CandidateEntry(self_info,
                                           PyGet(self_info, L_ID, EmptyStr), TRUE)
          hasPeer == InHolds(L_Peer, st)
          peers == IF hasPeer THEN PyItem(st, L_Peer) ELSE PyNone
          peerEntries == [i \in 1..Len(peers.items) |->
                            CandidateEntry(peers.items[i].v,
                                           PyStr(peers.items[i].k), FALSE)]
          raises == \/ hasSelf /\ IsExc(selfEntry)
                    \/ hasPeer /\ (~IsDict(peers)
                                   \/ \E i \in 1..Len(peers.items) :
                                         IsExc(peerEntries[i]))
          exit_nodes == Kept((IF hasSelf THEN <<selfEntry>> ELSE <<>>)
                             \o (IF hasPeer THEN peerEntries ELSE <<>>))
      IN  IF raises THEN EXC
          ELSE IF \E i, j \in 1..Len(exit_nodes) :
                     i # j /\ ~Comparable(exit_nodes[i].hostname,
                                          exit_nodes[j].hostname)
               THEN EXC
          ELSE PyList(SortByHostname(exit_nodes))

\* get_available_exit_nodes(): any exception becomes the empty list.
get_available_exit_nodes(so) ==
    LET r == get_available_exit_nodes_body(get_status(so))
    IN  IF get_status(so) = Hung THEN Hung ELSE IF IsExc(r) THEN EmptyList ELSE r

---------------------------------------------------------------------------
(* The current exit node *)

\* The identifier a root-level ExitNodeStatus gives: its ID when it is a
\* record, its text when it is anything else that is truthy, else ''.
RootStatusId(exit_node_status) ==
    IF ~Truthy(exit_node_status) THEN EmptyStr
    ELSE IF IsDict(exit_node_status) THEN PyGet(exit_node_status, L_ID, EmptyStr)
    ELSE PyStr(StrOf(exit_node_status))

\* The two root-level locations read in the other order.
RootExitNodeId_IdFirst(st) ==
    LET exit_node_status == PyGet(st, L_ExitNodeStatus, EmptyDict)
    IN  IF IsExc(exit_node_status) THEN EXC
        ELSE IF Truthy(PyGet(st, L_ExitNodeID, EmptyStr))
             THEN PyGet(st, L_ExitNodeID, EmptyStr)
             ELSE RootStatusId(exit_node_status)

\* exit_node_id after the two root-level locations.
RootExitNodeId(st) ==
    LET exit_node_status == PyGet(st, L_ExitNodeStatus, EmptyDict)
    IN  IF IsExc(exit_node_status) THEN EXC
        ELSE IF Truthy(RootStatusId(exit_node_status))
             THEN RootStatusId(exit_node_status)
             ELSE PyGet(st, L_ExitNodeID, EmptyStr)

\* The identifier Self's ExitNodeStatus gives, when it is truthy: its ID when
\* it is a record holding one, else its text.
SelfStatusId(self_exit_status) ==
    IF IsDict(self_exit_status) /\ HasKey(self_exit_status, L_ID)
    THEN Lookup(self_exit_status, L_ID)
    ELSE PyStr(StrOf(self_exit_status))

\* exit_node_id after Self's two locations, given its value id before them.
SelfExitNodeId(self_info, id) ==
    IF Truthy(id) THEN id
    ELSE LET id3 == PyGet(self_info, L_ExitNodeID, EmptyStr)
             self_exit_status == PyGet(self_info, L_ExitNodeStatus, EmptyDict)
         IN  IF IsExc(id3) THEN EXC
             ELSE IF Truthy(id3) THEN id3
             ELSE IF Truthy(self_exit_status) THEN SelfStatusId(self_exit_status)
             ELSE id3

\* The assignment identifier get_current_exit_node works with: Self's
\* locations are read only when the snapshot has a Self.
ExitNodeIdOf(st) ==
    IF ~IsDict(st) THEN EXC
    ELSE IF IsExc(RootExitNodeId(st)) THEN EXC
    ELSE IF HasKey(st, L_Self)
         THEN SelfExitNodeId(Lookup(st, L_Self), RootExitNodeId(st))
         ELSE RootExitNodeId(st)

\* exit_node_ip: the first address of a root-level ExitNodeStatus record,
\* without its /prefix; None when there is none.
ExitNodeIp(exit_node_status) ==
    IF ~(Truthy(exit_node_status) /\ IsDict(exit_node_status)) THEN PyNone
    ELSE LET tailscale_ips == PyGet(exit_node_status, L_TailscaleIPs, EmptyList)
         IN  IF ~Truthy(tailscale_ips) THEN PyNone
             ELSE IF IsExc(PyFirst(tailscale_ips)) THEN EXC
             ELSE IF IsStr(PyFirst(tailscale_ips))
                  THEN PyStr(Split0(PyFirst(tailscale_ips).s, "/"))
                  ELSE PyStr(StrOf(PyFirst(tailscale_ips)))

\* str(peer_ip).split('/')[0] if '/' in str(peer_ip) else str(peer_ip)
CleanIp(peer_ip) == Split0(StrOf(peer_ip), "/")

\* Whether one of the peer's addresses, cleaned, equals exit_node_ip; "exc"
\* when reading them raises.
AddressRule(peer_info, exit_node_ip) ==
    LET peer_ips == PyGet(peer_info, L_TailscaleIPs, EmptyList)
    IN  IF IsExc(peer_ips) THEN "exc"
        ELSE IF ~Iterable(peer_ips) THEN "exc"
        ELSE IF \E i \in 1..Len(PyIter(peer_ips)) :
                   CleanIp(PyIter(peer_ips)[i]) = exit_node_ip.s
             THEN "addr" ELSE "none"

\* The rule by which one peer matches the assignment: "key" (the Peer map
\* key), "id" (the peer's own ID field), "addr" (an address), "none", or "exc"
\* when the tests raise.  The if / elif chain of the loop body.
MatchRule(peer_id, peer_info, exit_node_id, exit_node_ip) ==
    IF peer_id = StrOf(exit_node_id) THEN "key"
    ELSE IF InRaises(peer_info) THEN "exc"
    ELSE IF InHolds(L_ID, peer_info)
            /\ IsExc(PyGet(peer_info, L_ID, EmptyStr)) THEN "exc"
    ELSE IF InHolds(L_ID, peer_info)
            /\ StrOf(PyGet(peer_info, L_ID, EmptyStr)) = StrOf(exit_node_id)
         THEN "id"
    ELSE IF Truthy(exit_node_ip) THEN AddressRule(peer_info, exit_node_ip)
    ELSE "none"

\* ip with its /prefix dropped: if ip and '/' in str(ip): ip = str(ip).split('/')[0]
DropPrefix(ip) ==
    IF Truthy(ip) /\ IsSubstr(<<"/">>, StrOf(ip))
    THEN PyStr(Split0(StrOf(ip), "/")) ELSE ip

\* The record returned for a matched device (a peer or self).
ResolvedNode(info, exit_node_id, exit_node_ip) ==
    LET dns_name == PyGet(info, L_DNSName, EmptyStr)
        ip == IF IsExc(dns_name) THEN EXC
              ELSE IF Truthy(exit_node_ip) THEN exit_node_ip
              ELSE PrimaryIp(info, EmptyStr)
        hostname == PyGet(info, L_HostName, EmptyStr)
        hostname2 == IF IsExc(hostname) THEN EXC
                     ELSE IF ~Truthy(hostname) /\ Truthy(dns_name)
                          THEN ShortName(dns_name) ELSE hostname
    IN  IF IsExc(dns_name) \/ IsExc(ip) \/ IsExc(hostname2) THEN EXC
        ELSE [t |-> "node",
              id |-> PyStr(StrOf(exit_node_id)),
              name |-> dns_name,
              ip |-> DropPrefix(ip),
              hostname |-> hostname2]

\* The loop over the Peer map from its i-th item on: the first peer that
\* matches by any rule ends it.  [t |-> "nomatch"] when the loop runs out.
NoMatch == [t |-> "nomatch"]
RECURSIVE PeerLoop(_, _, _, _)
PeerLoop(items, i, exit_node_id, exit_node_ip) ==
    IF i > Len(items) THEN NoMatch
    ELSE LET rule == MatchRule(items[i].k, items[i].v, exit_node_id, exit_node_ip)
         IN  IF rule = "exc" THEN EXC
             ELSE IF rule = "none"
                  THEN PeerLoop(items, i + 1, exit_node_id, exit_node_ip)
             ELSE ResolvedNode(items[i].v, exit_node_id, exit_node_ip)

\* The match against peers: NoMatch when the snapshot has no Peer.
MatchPeers(st, exit_node_id, exit_node_ip) ==
    IF ~HasKey(st, L_Peer) THEN NoMatch
    ELSE IF ~IsDict(Lookup(st, L_Peer)) THEN EXC
    ELSE PeerLoop(Lookup(st, L_Peer).items, 1, exit_node_id, exit_node_ip)

\* The check of self matching by address as well.
MatchSelf_ByAddress(self_info, exit_node_id, exit_node_ip) ==
    LET self_id == PyGet(self_info, L_ID, EmptyStr)
    IN  IF IsExc(self_id) THEN EXC
        ELSE IF StrOf(self_id) = StrOf(exit_node_id)
                \/ (Truthy(exit_node_ip)
                    /\ AddressRule(self_info, exit_node_ip) = "addr")
             THEN ResolvedNode(self_info, exit_node_id, exit_node_ip)
        ELSE PyNone

\* The check of self, after the peers: by identifier only.
MatchSelf(self_info, exit_node_id, exit_node_ip) ==
    LET self_id == PyGet(self_info, L_ID, EmptyStr)
    IN  IF IsExc(self_id) THEN EXC
        ELSE IF StrOf(self_id) = StrOf(exit_node_id)
             THEN ResolvedNode(self_info, exit_node_id, exit_node_ip)
        ELSE PyNone

get_current_exit_node_body(st) ==
    IF IsExc(st) THEN EXC
    ELSE IF ~Truthy(st) THEN PyNone
    ELSE IF IsExc(ExitNodeIdOf(st)) THEN EXC
    ELSE IF ~HasKey(st, L_Self) THEN PyNone
    ELSE IF ~Truthy(ExitNodeIdOf(st)) THEN PyNone
    ELSE
      LET exit_node_id == ExitNodeIdOf(st)
          exit_node_ip == ExitNodeIp(PyGet(st, L_ExitNodeStatus, EmptyDict))
          byPeer == IF IsExc(exit_node_ip) THEN EXC
                    ELSE MatchPeers(st, exit_node_id, exit_node_ip)
      IN  IF byPeer.t = "nomatch"
          THEN MatchSelf(Lookup(st, L_Self), exit_node_id, exit_node_ip)
          ELSE byPeer

\* get_current_exit_node(): any exception becomes None.
get_current_exit_node(so) ==
    LET r == get_current_exit_node_body(get_status(so))
    IN  IF get_status(so) = Hung THEN Hung ELSE IF IsExc(r) THEN PyNone ELSE r

---------------------------------------------------------------------------
(* The snapshots the model draws from *)

\* A field that the document does not hold.
Absent == [t |-> "absent"]
Opt(k, v) == IF v.t = "absent" THEN <<>> ELSE Item(k, v)

\* The most entries a Peer map of the model holds.
MaxPeers == 2

\* Short texts: identifiers, addresses, names.
S_x == <<"x">>
S_y == <<"y">>
S_s == <<"s">>
S_k1 == <<"k", "1">>
S_k2 == <<"k", "2">>
A_a == <<"a">>
A_a32 == <<"a", "/", "3", "2">>
A_b == <<"b">>
N_pt == <<"p", ".", "t">>
N_qt == <<"q", ".", "t">>
N_rt == <<"r", ".", "t">>
N_st == <<"s", ".", "t">>
N_ut == <<"u", ".", "t">>
N_me == <<"m", "e", ".", "t">>
H_R == <<"R">>
U_url == <<"u", "r", "l">>
B_Stopped == <<"S", "t", "o", "p", "p", "e", "d">>

\* Snapshots that differ in the three fields is_connected() reads, with
\* missing and wrongly-typed values, and documents that are no object.
ConnSnapshots ==
    {PyDict(Opt(L_BackendState, b) \o Opt(L_HaveNodeKey, h) \o Opt(L_AuthURL, a)
            \o Item(L_Self, PyDict(Item(L_HostName, PyStr(N_me))))) :
        b \in {Absent, PyStr(L_Running), PyStr(B_Stopped), PyNone},
        h \in {Absent, PyTrue, PyFalse, PyNone, PyInt(0), PyInt(1), EmptyStr, PyStr(S_k1)},
        a \in {Absent, EmptyStr, PyStr(U_url), PyNone}}

NonObjectSnapshots ==
    {PyNone, PyTrue, PyInt(0), PyInt(1), EmptyList, PyList(<<PyStr(L_Self)>>),
     PyList(<<PyStr(L_Peer)>>), PyStr(S_x), PyStr(L_Self), PyStr(L_Peer), EmptyDict}

\* A well-formed device record.
Device(id, dns, ip) ==
    PyDict(Item(L_ID, PyStr(id)) \o Item(L_DNSName, PyStr(dns))
           \o Item(L_TailscaleIPs, PyList(<<PyStr(ip)>>))
           \o Item(L_Online, PyTrue) \o Item(L_ExitNodeOption, PyTrue)
           \o Item(L_UserID, PyInt(1)))

\* Snapshots whose Self, Peer map or peer entries are missing or are not
\* what the queries expect.
MalformedSelves ==
    {Absent, PyNone, PyStr(S_x), EmptyList, EmptyDict,
     Device(S_s, N_me, A_b),
     PyDict(Item(L_DNSName, PyInt(1)) \o Item(L_TailscaleIPs, PyInt(1))),
     PyDict(Item(L_DNSName, PyStr(N_me)) \o Item(L_UserID, EmptyList))}
MalformedPeers ==
    {Absent, PyNone, EmptyList, PyStr(S_x), EmptyDict,
     PyDict(Item(S_k1, Device(S_x, N_pt, A_a))),
     PyDict(Item(S_k1, PyNone)),
     PyDict(Item(S_k1, Device(S_x, N_pt, A_a)) \o Item(S_k2, PyStr(L_ID))),
     PyDict(Item(S_k1, PyDict(Item(L_DNSName, PyStr(N_pt))
                              \o Item(L_TailscaleIPs, EmptyDict))))}
MalformedSnapshots ==
    {PyDict(Item(L_BackendState, PyStr(L_Running)) \o Item(L_HaveNodeKey, PyTrue)
            \o Item(L_ExitNodeID, PyStr(S_x))
            \o Opt(L_Self, sf) \o Opt(L_Peer, pr)) :
        sf \in MalformedSelves, pr \in MalformedPeers}

QuerySnapshots == ConnSnapshots \cup NonObjectSnapshots \cup MalformedSnapshots

\* Snapshots for the exit-node resolver: where the assignment is reported,
\* and peers that match it by key, by ID field, by address, or not at all.
PeerRecord(id, dns, host, ips) ==
    PyDict(Opt(L_ID, id) \o Item(L_DNSName, PyStr(dns)) \o Opt(L_HostName, host)
           \o Item(L_TailscaleIPs, PyList(ips)))
PeerInfos ==
    {PeerRecord(Absent, N_pt, Absent, <<PyStr(A_b)>>),
     PeerRecord(PyStr(S_x), N_qt, Absent, <<PyStr(A_b)>>),
     PeerRecord(PyStr(S_y), N_rt, PyStr(H_R), <<PyStr(A_a32)>>),
     PeerRecord(Absent, N_st, Absent, <<PyStr(A_b), PyStr(A_a)>>),
     PeerRecord(PyStr(S_x), N_ut, Absent, <<PyStr(A_a)>>)}
PeerKeys == {S_x, S_k1, S_k2}
PeerItems == {[k |-> k, v |-> v] : k \in PeerKeys, v \in PeerInfos}

\* The Peer maps of at most MaxPeers entries: item sequences with distinct keys.
PeerMaps ==
    UNION {{items \in [1..n -> PeerItems] :
               \A i, j \in 1..n : i # j => items[i].k # items[j].k} :
           n \in 0..MaxPeers}

RootStatuses ==
    {Absent,
     PyDict(Item(L_ID, PyStr(S_x))),
     PyDict(Item(L_ID, PyStr(S_x)) \o Item(L_TailscaleIPs, PyList(<<PyStr(A_a32)>>))),
     PyDict(Item(L_TailscaleIPs, PyList(<<PyStr(A_a32)>>))),
     PyDict(Item(L_ID, PyStr(S_y)) \o Item(L_TailscaleIPs, PyList(<<PyStr(A_b)>>))),
     PyStr(S_x)}
RootIds == {Absent, EmptyStr, PyStr(S_x), PyStr(S_y)}
SelfRecord(id, enid, ens) ==
    PyDict(Item(L_ID, PyStr(id)) \o Item(L_DNSName, PyStr(N_me))
           \o Item(L_TailscaleIPs, PyList(<<PyStr(A_b)>>))
           \o Opt(L_ExitNodeID, enid) \o Opt(L_ExitNodeStatus, ens))
ResolverSelves ==
    {Absent,
     SelfRecord(S_s, Absent, Absent),
     SelfRecord(S_x, Absent, Absent),
     SelfRecord(S_s, PyStr(S_x), Absent),
     SelfRecord(S_s, Absent, PyDict(Item(L_ID, PyStr(S_x)))),
     SelfRecord(S_s, PyStr(S_y), PyDict(Item(L_ID, PyStr(S_x)))),
     SelfRecord(S_s, Absent, PyDict(Item(L_TailscaleIPs, PyList(<<PyStr(A_a)>>))))}

ResolverSnapshots ==
    {PyDict(Opt(L_ExitNodeStatus, ens) \o Opt(L_ExitNodeID, enid)
            \o Opt(L_Self, sf) \o Item(L_Peer, PyDict(pm))) :
        ens \in RootStatuses, enid \in RootIds, sf \in ResolverSelves,
        pm \in PeerMaps}

\* Snapshots for the exit-node candidates: well-formed devices that pass the
\* filter or fail it on one of its three conditions, with hostnames that tie,
\* that are empty and that differ in case.
CandidateRecord(id, flag, dns, host, ips) ==
    PyDict(Opt(L_ID, id) \o Item(L_DNSName, dns) \o Opt(L_HostName, host)
           \o Item(L_TailscaleIPs, PyList(ips)) \o Opt(L_ExitNodeOption, flag))
CandidateInfos(id) ==
    {CandidateRecord(id, PyTrue, PyStr(N_pt), Absent, <<PyStr(A_a)>>),
     CandidateRecord(id, PyTrue, PyStr(N_pt), Absent, <<PyStr(A_b), PyStr(A_a)>>),
     CandidateRecord(id, PyTrue, PyStr(N_qt), PyStr(H_R), <<PyStr(A_b)>>),
     CandidateRecord(id, PyTrue, PyStr(N_rt), EmptyStr, <<PyStr(A_a32)>>),
     CandidateRecord(id, PyFalse, PyStr(N_st), Absent, <<PyStr(A_a)>>),
     CandidateRecord(id, Absent, PyStr(N_ut), Absent, <<PyStr(A_a)>>),
     CandidateRecord(id, PyTrue, EmptyStr, PyStr(H_R), <<PyStr(A_a)>>),
     CandidateRecord(id, PyTrue, PyStr(N_st), Absent, <<>>),
     CandidateRecord(id, PyTrue, PyStr(N_ut), Absent, <<EmptyStr, PyStr(A_a)>>)}
CandidatePeerItems == {[k |-> k, v |-> v] : k \in PeerKeys, v \in CandidateInfos(Absent)}
CandidatePeerMaps ==
    UNION {{items \in [1..n -> CandidatePeerItems] :
               \A i, j \in 1..n : i # j => items[i].k # items[j].k} :
           n \in 0..MaxPeers}
CandidateSnapshots ==
    {PyDict(Opt(L_Self, sf) \o Item(L_Peer, PyDict(pm))) :
        sf \in {Absent} \cup CandidateInfos(PyStr(S_s)), pm \in CandidatePeerMaps}

\* Snapshots for the device list: Self and peers with and without a name, an
\* address and an Online flag; two peers may hold the same record.
DeviceRecord(dns, ips, online) ==
    PyDict(Opt(L_DNSName, dns) \o Opt(L_TailscaleIPs, ips) \o Opt(L_Online, online))
DeviceInfos ==
    {DeviceRecord(PyStr(N_pt), PyList(<<PyStr(A_a)>>), PyTrue),
     DeviceRecord(PyStr(N_qt), PyList(<<PyStr(A_b), PyStr(A_a)>>), PyFalse),
     DeviceRecord(PyStr(N_rt), PyList(<<PyStr(A_a32)>>), Absent),
     DeviceRecord(Absent, PyList(<<PyStr(A_a)>>), PyTrue),
     DeviceRecord(PyStr(N_st), Absent, PyFalse),
     DeviceRecord(PyStr(N_ut), EmptyList, PyTrue)}
DevicePeerItems == {[k |-> k, v |-> v] : k \in PeerKeys, v \in DeviceInfos}
DevicePeerMaps ==
    UNION {{items \in [1..n -> DevicePeerItems] :
               \A i, j \in 1..n : i # j => items[i].k # items[j].k} :
           n \in 0..MaxPeers}
DeviceSnapshots ==
    {PyDict(Opt(L_Self, sf) \o Opt(L_Peer, pr)) :
        sf \in {Absent} \cup DeviceInfos,
        pr \in {Absent} \cup {PyDict(pm) : pm \in DevicePeerMaps}}

---------------------------------------------------------------------------
(* The nickname store: profiles.json *)

\* The profiles file on disk: missing, there but not readable (open() raises),
\* or holding a text.
FileMissing == [kind |-> "missing", text |-> <<>>]
FileUnreadable == [kind |-> "unreadable", text |-> <<>>]
FileText(text) == [kind |-> "text", text |-> text]

\* A string's characters between the quotes of a JSON string.
RECURSIVE JsonEscape(_)
JsonEscape(s) ==
    IF s = <<>> THEN <<>>
    ELSE (CASE s[1] = "\"" -> <<"\\", "\"">>
            [] s[1] = "\\" -> <<"\\", "\\">>
            [] s[1] = "\n" -> <<"\\", "n">>
            [] s[1] = "\t" -> <<"\\", "t">>
            [] OTHER -> <<s[1]>>) \o JsonEscape(Tail(s))

\* The JSON text of a scalar element.
JsonScalar(v) ==
    CASE v.t = "str"  -> <<"\"">> \o JsonEscape(v.s) \o <<"\"">>
      [] v.t = "none" -> <<"n","u","l","l">>
      [] v.t = "bool" -> IF v.b THEN <<"t","r","u","e">> ELSE <<"f","a","l","s","e">>
      [] v.t = "int"  -> StrOf(v)
      [] v.t = "dict" -> <<"{","}">>

\* The elements of a list from the i-th on, each on a line of its own.
RECURSIVE JsonItems(_, _)
JsonItems(l, i) ==
    IF i > Len(l) THEN <<"\n">>
    ELSE <<"\n", " ", " ">> \o JsonScalar(l[i])
         \o (IF i < Len(l) THEN <<",">> ELSE <<>>) \o JsonItems(l, i + 1)

\* json.dump(profiles, f, indent=2) for a list of scalars.
JsonDump(profiles) ==
    IF profiles.l = <<>> THEN <<"[", "]">>
    ELSE <<"[">> \o JsonItems(profiles.l, 1) \o <<"]">>

\* The JSON parser: each step yields [ok, val, rest].
ParseFail == [ok |-> FALSE, val |-> PyNone, rest |-> <<>>]
Parsed(v, rest) == [ok |-> TRUE, val |-> v, rest |-> rest]

IsJsonSpace(c) == c \in {" ", "\n", "\t", "\r"}
RECURSIVE SkipWs(_)
SkipWs(s) == IF s # <<>> /\ IsJsonSpace(s[1]) THEN SkipWs(Tail(s)) ELSE s

StartsWith(s, w) == Len(s) >= Len(w) /\ SubSeq(s, 1, Len(w)) = w
Drop(s, n) == SubSeq(s, n + 1, Len(s))

IsDigit(c) == c \in {"0", "1", "2", "3", "4", "5", "6", "7", "8", "9"}
DigitValue(c) == Ord(c) - Ord("0")

\* The characters of a string after its opening quote, up to the closing one;
\* acc holds what was read.  A raw control character ends the parse.
RECURSIVE ParseString(_, _)
ParseString(s, acc) ==
    IF s = <<>> THEN ParseFail
    ELSE IF s[1] = "\"" THEN Parsed(PyStr(acc), Tail(s))
    ELSE IF s[1] \in {"\n", "\t", "\r"} THEN ParseFail
    ELSE IF s[1] = "\\"
         THEN IF Len(s) < 2 THEN ParseFail
              ELSE IF s[2] \in {"\"", "\\", "/"}
                   THEN ParseString(Drop(s, 2), Append(acc, s[2]))
              ELSE IF s[2] = "n" THEN ParseString(Drop(s, 2), Append(acc, "\n"))
              ELSE IF s[2] = "t" THEN ParseString(Drop(s, 2), Append(acc, "\t"))
              ELSE ParseFail
    ELSE ParseString(Tail(s), Append(acc, s[1]))

\* The digits of a number; n is the value read so far.
RECURSIVE ParseDigits(_, _)
ParseDigits(s, n) ==
    IF s # <<>> /\ IsDigit(s[1]) THEN ParseDigits(Tail(s), 10 * n + DigitValue(s[1]))
    ELSE Parsed(PyInt(n), s)

RECURSIVE ParseValue(_)
RECURSIVE ParseElements(_, _)

\* One JSON value, after any white space.
ParseValue(text) ==
    LET s == SkipWs(text)
    IN  IF s = <<>> THEN ParseFail
        ELSE IF s[1] = "\"" THEN ParseString(Tail(s), <<>>)
        ELSE IF s[1] = "["
             THEN IF StartsWith(SkipWs(Tail(s)), <<"]">>)
                  THEN Parsed(EmptyList, Tail(SkipWs(Tail(s))))
                  ELSE ParseElements(Tail(s), <<>>)
        ELSE IF s[1] = "{"
             THEN IF StartsWith(SkipWs(Tail(s)), <<"}">>)
                  THEN Parsed(EmptyDict, Tail(SkipWs(Tail(s))))
                  ELSE ParseFail
        ELSE IF StartsWith(s, <<"n","u","l","l">>) THEN Parsed(PyNone, Drop(s, 4))
        ELSE IF StartsWith(s, <<"t","r","u","e">>) THEN Parsed(PyTrue, Drop(s, 4))
        ELSE IF StartsWith(s, <<"f","a","l","s","e">>) THEN Parsed(PyFalse, Drop(s, 5))
        ELSE IF s[1] = "0"
             THEN IF Len(s) > 1 /\ IsDigit(s[2]) THEN ParseFail
                  ELSE Parsed(PyInt(0), Tail(s))
        ELSE IF IsDigit(s[1]) THEN ParseDigits(s, 0)
        ELSE ParseFail

\* The elements of an array after "[" or ",": a value, then "," or "]".
ParseElements(text, acc) ==
    LET e == ParseValue(text)
        s == SkipWs(e.rest)
    IN  IF ~e.ok \/ s = <<>> THEN ParseFail
        ELSE IF s[1] = "," THEN ParseElements(Tail(s), Append(acc, e.val))
        ELSE IF s[1] = "]" THEN Parsed(PyList(Append(acc, e.val)), Tail(s))
        ELSE ParseFail

\* json.load(f): the value of the whole text; EXC (JSONDecodeError) when the
\* text is no JSON value or something follows the value.
JsonLoad(text) ==
    LET r == ParseValue(text)
    IN  IF r.ok /\ SkipWs(r.rest) = <<>> THEN r.val ELSE EXC

\* load_profiles() with any JSON payload taken for the list.
load_profiles_NoListCheck(f) ==
    IF f.kind = "missing" THEN EmptyList
    ELSE IF f.kind = "unreadable" THEN EmptyList
    ELSE IF IsExc(JsonLoad(f.text)) THEN EmptyList
    ELSE JsonLoad(f.text)

\* load_profiles(): the stored array; [] when the file is missing, cannot be
\* read, holds no JSON, or holds JSON that is no array.
load_profiles(f) ==
    IF f.kind = "missing" THEN EmptyList
    ELSE IF f.kind = "unreadable" THEN EmptyList
    ELSE IF IsExc(JsonLoad(f.text)) THEN EmptyList
    ELSE IF JsonLoad(f.text).t = "list" THEN JsonLoad(f.text)
    ELSE EmptyList

\* How writing the file ends: written; open() raised, the file untouched;
\* open() truncated the file and the write raised with nothing, or with a
\* part of the text, on disk.
WriteOutcomes == {"written", "open_failed", "write_failed_empty", "write_failed_partial"}

\* save_profiles(profiles): what it returns and the file it leaves.
save_profiles(f, profiles, w) ==
    LET text == JsonDump(profiles)
    IN  CASE w = "written" -> [ret |-> PyTrue, file |-> FileText(text)]
          [] w = "open_failed" -> [ret |-> PyFalse, file |-> f]
          [] w = "write_failed_empty" -> [ret |-> PyFalse, file |-> FileText(<<>>)]
          [] w = "write_failed_partial" ->
                [ret |-> PyFalse, file |-> FileText(SubSeq(text, 1, Len(text) \div 2))]

\* nickname in profiles
InList(x, profiles) == \E i \in 1..Len(profiles.l) : PyEq(x, profiles.l[i])

\* profiles.remove(nickname): without the first element equal to nickname.
ListRemove(profiles, x) ==
    LET i == CHOOSE i \in 1..Len(profiles.l) :
                 /\ PyEq(x, profiles.l[i])
                 /\ \A j \in 1..(i - 1) : ~PyEq(x, profiles.l[j])
    IN  PyList(SubSeq(profiles.l, 1, i - 1) \o SubSeq(profiles.l, i + 1, Len(profiles.l)))

\* What a store operation did: what it returned, the file it left, and
\* whether it wrote.
Stored(r, f, wrote) == [ret |-> r, file |-> f, wrote |-> wrote]

\* add_profile() putting the new nickname first.
add_profile_Prepends(f, nickname, w) ==
    LET profiles == load_profiles(f)
        saved == save_profiles(f, PyList(<<nickname>> \o profiles.l), w)
    IN  IF ~InList(nickname, profiles) THEN Stored(saved.ret, saved.file, TRUE)
        ELSE Stored(PyFalse, f, FALSE)

\* add_profile() appending without looking for the nickname.
add_profile_NoMembershipTest(f, nickname, w) ==
    LET profiles == load_profiles(f)
        saved == save_profiles(f, PyList(Append(profiles.l, nickname)), w)
    IN  Stored(saved.ret, saved.file, TRUE)

\* add_profile(nickname)
add_profile(f, nickname, w) ==
    LET profiles == load_profiles(f)
        saved == save_profiles(f, PyList(Append(profiles.l, nickname)), w)
    IN  IF ~InList(nickname, profiles) THEN Stored(saved.ret, saved.file, TRUE)
        ELSE Stored(PyFalse, f, FALSE)

\* remove_profile() saving the list whether the nickname was in it or not.
remove_profile_AlwaysSaves(f, nickname, w) ==
    LET profiles == load_profiles(f)
        left == IF InList(nickname, profiles) THEN ListRemove(profiles, nickname)
                ELSE profiles
        saved == save_profiles(f, left, w)
    IN  Stored(saved.ret, saved.file, TRUE)

\* remove_profile(nickname)
remove_profile(f, nickname, w) ==
    LET profiles == load_profiles(f)
    IN  IF InList(nickname, profiles)
        THEN LET saved == save_profiles(f, ListRemove(profiles, nickname), w)
             IN  Stored(saved.ret, saved.file, TRUE)
        ELSE Stored(PyFalse, f, FALSE)

---------------------------------------------------------------------------
(* The queries as operations *)

\* One launched command with how it ended and what it printed.
Cmd(name, out) == [cmd |-> name, out |-> out, stderr |-> <<>>, stdout |-> <<>>]
CmdText(name, out, stderr, stdout) ==
    [cmd |-> name, out |-> out, stderr |-> stderr, stdout |-> stdout]

\* A probe state in which the daemon answers.
ProbeUp == [user |-> "nonzero", system |-> "zero", fallback |-> "zero"]

StatusCmd == <<Cmd("status_json", status.out)>>

Query(name, result) ==
    /\ op' = name
    /\ arg' = PyNone
    /\ ret' = result
    /\ cmds' = StatusCmd
    /\ UNCHANGED <<status, probe, file, win>>

IsConnected == Query("is_connected", is_connected(status))
GetCurrentUser == Query("get_current_user", get_current_user(status))
GetDevices == Query("get_devices", get_devices(status))
GetAvailableAccounts == Query("get_available_accounts", get_available_accounts(status))
GetAvailableExitNodes == Query("get_available_exit_nodes", get_available_exit_nodes(status))
GetCurrentExitNode == Query("get_current_exit_node", get_current_exit_node(status))

StatusFailures == {StatusExitNonzero, StatusBadJson, StatusNotFound}

InitIdle ==
    /\ probe = ProbeUp
    /\ op = "none"
    /\ arg = PyNone
    /\ ret = PyNone
    /\ cmds = <<>>
    /\ file = FileMissing
    /\ win = PyNone

\* Every query on every snapshot of QuerySnapshots, and on a failed status query.
InitQuery ==
    /\ status \in {StatusOk(v) : v \in QuerySnapshots} \cup StatusFailures
    /\ InitIdle
NextQuery ==
    \/ IsConnected
    \/ GetCurrentUser
    \/ GetDevices
    \/ GetAvailableAccounts
    \/ GetAvailableExitNodes
    \/ GetCurrentExitNode
SpecQuery == InitQuery /\ [][NextQuery]_vars

\* The resolver on every snapshot of ResolverSnapshots.
InitResolver ==
    /\ status \in {StatusOk(v) : v \in ResolverSnapshots}
    /\ InitIdle
NextResolver == GetCurrentExitNode
SpecResolver == InitResolver /\ [][NextResolver]_vars

\* The candidate list on every snapshot of CandidateSnapshots.
InitCandidates ==
    /\ status \in {StatusOk(v) : v \in CandidateSnapshots}
    /\ InitIdle
NextCandidates == GetAvailableExitNodes
SpecCandidates == InitCandidates /\ [][NextCandidates]_vars

\* get_devices() on every snapshot of DeviceSnapshots.
InitDevices ==
    /\ status \in {StatusOk(v) : v \in DeviceSnapshots}
    /\ InitIdle
NextDevices == GetDevices
SpecDevices == InitDevices /\ [][NextDevices]_vars

---------------------------------------------------------------------------
(* Properties of the queries *)

\* The snapshot the last status query parsed (None when it failed).
Snapshot == status.json
FieldIs(v, k, x) == IsDict(v) /\ HasKey(v, k) /\ Lookup(v, k) = x
FieldSet(v, k) == IsDict(v) /\ HasKey(v, k) /\ Truthy(Lookup(v, k))
FieldEmptyOrAbsent(v, k) == IsDict(v) /\ (~HasKey(v, k) \/ Lookup(v, k) = EmptyStr)

\* What the connectivity classification asks of a snapshot.
ClassifiedConnected(v) ==
    /\ FieldIs(v, L_BackendState, PyStr(L_Running))
    /\ FieldSet(v, L_HaveNodeKey)
    /\ FieldEmptyOrAbsent(v, L_AuthURL)

\* C1: is_connected() reports connected (returns True) exactly when the
\* snapshot has BackendState "Running", HaveNodeKey set and an empty or absent
\* AuthURL; for every other snapshot, and when the status query gave no
\* snapshot, what it returns counts as not connected.
C1_ConnectedIff ==
    op = "is_connected" =>
        IF status.out = "ok" /\ ClassifiedConnected(Snapshot)
        THEN ret = PyTrue
        ELSE ~IsExc(ret) /\ ~Truthy(ret)

C1_Witness ==
    /\ op = "is_connected"
    /\ ret = PyTrue
    /\ FieldIs(Snapshot, L_AuthURL, EmptyStr)

\* C2: for every snapshot, with missing or wrongly-typed fields or a top level
\* that is no object, is_connected() raises nothing and returns one of the two
\* booleans True and False.
C2_BooleanResult ==
    op = "is_connected" /\ status.out = "ok" => ret \in {PyTrue, PyFalse}

QueryOps ==
    {"get_devices", "get_current_user", "get_available_exit_nodes",
     "get_current_exit_node", "get_available_accounts"}

\* The documented default of each query.
DefaultOf(q) ==
    CASE q = "get_devices" -> EmptyList
      [] q = "get_available_exit_nodes" -> EmptyList
      [] q = "get_available_accounts" -> [t |-> "set", s |-> {}]
      [] q = "get_current_user" -> PyNone
      [] q = "get_current_exit_node" -> PyNone

\* C3: on every snapshot the status query can return, malformed or partial
\* (Self or Peer missing or no object, a peer entry that is no object, a top
\* level that is no object), none of get_devices, get_current_user,
\* get_available_exit_nodes, get_current_exit_node and get_available_accounts
\* raises, and on a top level that is no object each returns its default.
C3_QueriesNeverRaise ==
    op \in QueryOps /\ status.out = "ok" /\ Snapshot.t \in {"dict", "list", "str"} =>
        /\ ~IsExc(ret)
        /\ ~IsDict(Snapshot) => ret = DefaultOf(op)

---------------------------------------------------------------------------
(* Properties of the exit-node resolver *)

\* The snapshot has a Self, a Peer map and an assignment identifier, and the
\* resolver ran on it.
Resolved ==
    /\ op = "get_current_exit_node"
    /\ status.out = "ok"
    /\ IsDict(Snapshot)
    /\ HasKey(Snapshot, L_Self)
    /\ HasKey(Snapshot, L_Peer)
    /\ IsDict(Lookup(Snapshot, L_Peer))
    /\ ~IsExc(ExitNodeIdOf(Snapshot))
    /\ Truthy(ExitNodeIdOf(Snapshot))

PeerItemsOf(v) == Lookup(v, L_Peer).items
HintOf(v) == ExitNodeIp(PyGet(v, L_ExitNodeStatus, EmptyDict))

\* The peers (indices into the Peer map) that match the assignment by rule.
PeersByRule(v, rule) ==
    {i \in 1..Len(PeerItemsOf(v)) :
        MatchRule(PeerItemsOf(v)[i].k, PeerItemsOf(v)[i].v,
                  ExitNodeIdOf(v), HintOf(v)) = rule}

\* The result is the i-th peer of the snapshot.
IsPeer(r, v, i) ==
    r = ResolvedNode(PeerItemsOf(v)[i].v, ExitNodeIdOf(v), HintOf(v))

\* C7: when several peers match the assignment by different rules, the peer
\* matched by the highest-priority rule is returned (map key, then the peer's
\* ID field, then the address hint), whatever the order of the peers.
C7_PriorityWins ==
    Resolved =>
        LET v == Snapshot
            best == IF PeersByRule(v, "key") # {} THEN "key"
                    ELSE IF PeersByRule(v, "id") # {} THEN "id"
                    ELSE "addr"
        IN  PeersByRule(v, best) # {} =>
                \E i \in PeersByRule(v, best) : IsPeer(ret, v, i)

\* The permutations of 1..n.
Perms(n) == {f \in [1..n -> 1..n] : \A i, j \in 1..n : i # j => f[i] # f[j]}

\* The dict d with the value at key k replaced.
WithValue(d, k, x) ==
    PyDict([i \in 1..Len(d.items) |->
               IF d.items[i].k = k THEN [k |-> k, v |-> x] ELSE d.items[i]])

\* The snapshot v with its Peer map iterated in the order f.
Reordered(v, f) ==
    WithValue(v, L_Peer,
              PyDict([i \in 1..Len(PeerItemsOf(v)) |-> PeerItemsOf(v)[f[i]]]))

\* C8: two snapshots that differ only in the iteration order of the Peer map
\* resolve to the same exit node.
C8_OrderIndependent ==
    Resolved =>
        \A f \in Perms(Len(PeerItemsOf(Snapshot))) :
            get_current_exit_node(StatusOk(Reordered(Snapshot, f))) = ret

\* The first truthy value of a sequence of values, its last value when none is.
RECURSIVE FirstNonEmpty(_)
FirstNonEmpty(locs) ==
    IF Len(locs) = 1 \/ Truthy(locs[1]) THEN locs[1] ELSE FirstNonEmpty(Tail(locs))

\* What each location of the assignment identifier holds ('' when it is not
\* there), read off the snapshot.
AtRootStatus(v) ==
    IF ~HasKey(v, L_ExitNodeStatus) THEN EmptyStr
    ELSE IF IsDict(Lookup(v, L_ExitNodeStatus))
         THEN PyGet(Lookup(v, L_ExitNodeStatus), L_ID, EmptyStr)
    ELSE Lookup(v, L_ExitNodeStatus)
AtRootId(v) == PyGet(v, L_ExitNodeID, EmptyStr)
AtSelfId(v) ==
    IF HasKey(v, L_Self) THEN PyGet(Lookup(v, L_Self), L_ExitNodeID, EmptyStr)
    ELSE EmptyStr
AtSelfStatus(v) ==
    IF HasKey(v, L_Self) /\ HasKey(Lookup(v, L_Self), L_ExitNodeStatus)
    THEN LET ses == Lookup(Lookup(v, L_Self), L_ExitNodeStatus)
         IN  IF IsDict(ses) /\ HasKey(ses, L_ID) THEN Lookup(ses, L_ID)
             ELSE PyStr(StrOf(ses))
    ELSE EmptyStr

\* C9: the assignment identifier is the first non-empty value among the ID of
\* the root ExitNodeStatus, then the root ExitNodeID, then what the Self record
\* holds (its ExitNodeID or ExitNodeStatus): a later location counts only when
\* every earlier one is empty, a value found earlier is never overridden, and
\* the identifier of a returned node is that value.
C9_IdentifierCascade ==
    op = "get_current_exit_node" /\ status.out = "ok" /\ IsDict(Snapshot) =>
        LET v == Snapshot
            id == ExitNodeIdOf(v)
            root == FirstNonEmpty(<<AtRootStatus(v), AtRootId(v)>>)
            inSelf == {AtSelfId(v), AtSelfStatus(v)}
        IN  /\ Truthy(root) => id = root
            /\ ~Truthy(root) =>
                  /\ id \in {root} \cup inSelf
                  /\ (\E x \in inSelf : Truthy(x)) => id \in inSelf /\ Truthy(id)
            /\ ~Truthy(id) => ret = PyNone
            /\ ret.t = "node" => ret.id = PyStr(StrOf(id))

\* A node was resolved from an identifier that an earlier location holds while
\* a later location holds a different one.
C9_Witness ==
    /\ op = "get_current_exit_node"
    /\ ret.t = "node"
    /\ Truthy(AtRootStatus(Snapshot))
    /\ Truthy(AtRootId(Snapshot))
    /\ AtRootId(Snapshot) # AtRootStatus(Snapshot)
    /\ ret.id = AtRootStatus(Snapshot)

\* The hostname of a device record: its HostName, or the first label of its
\* DNSName when it has none.
HostnameOf(d) ==
    IF Truthy(PyGet(d, L_HostName, EmptyStr)) THEN Lookup(d, L_HostName)
    ELSE ShortName(PyGet(d, L_DNSName, EmptyStr))

\* C10: when the root ExitNodeID is X (and the root holds no ExitNodeStatus),
\* no Peer map key equals X and some peer's own ID field equals X, such a peer
\* is returned: its DNSName, its primary address and its hostname.
C10_PeerIdFieldMatch ==
    /\ op = "get_current_exit_node"
    /\ status.out = "ok"
    /\ IsDict(Snapshot)
    /\ ~HasKey(Snapshot, L_ExitNodeStatus)
    /\ HasKey(Snapshot, L_ExitNodeID)
    /\ Truthy(Lookup(Snapshot, L_ExitNodeID))
    /\ HasKey(Snapshot, L_Peer)
    => LET v == Snapshot
           X == Lookup(v, L_ExitNodeID)
           items == PeerItemsOf(v)
           byId == {i \in 1..Len(items) : FieldIs(items[i].v, L_ID, X)}
       IN  (\A i \in 1..Len(items) : items[i].k # X.s) /\ byId # {} =>
               \E i \in byId :
                   /\ ret.t = "node"
                   /\ ret.name = Lookup(items[i].v, L_DNSName)
                   /\ ret.ip = PyStr(CleanIp(PrimaryIp(items[i].v, EmptyStr)))
                   /\ ret.hostname = HostnameOf(items[i].v)

---------------------------------------------------------------------------
(* Text of command output *)

IsUpper(c) == \E i \in 13..38 : CharOrder[i] = c
LowerChar(c) == IF IsUpper(c) THEN CharOrder[Ord(c) + 26] ELSE c
\* s.lower()
Lower(s) == [i \in 1..Len(s) |-> LowerChar(s[i])]

IsSpace(c) == c \in {" ", "\n", "\t"}
RECURSIVE LStrip(_)
LStrip(s) == IF s # <<>> /\ IsSpace(s[1]) THEN LStrip(Tail(s)) ELSE s
RECURSIVE RStrip(_)
RStrip(s) ==
    IF s # <<>> /\ IsSpace(s[Len(s)]) THEN RStrip(SubSeq(s, 1, Len(s) - 1)) ELSE s
\* s.strip()
Strip(s) == RStrip(LStrip(s))

W_denied == <<"d","e","n","i","e","d">>
W_access == <<"a","c","c","e","s","s">>
W_access_denied == <<"a","c","c","e","s","s"," ","d","e","n","i","e","d">>
W_profiles_access_denied ==
    <<"p","r","o","f","i","l","e","s"," ">> \o W_access_denied
W_permission_denied ==
    <<"p","e","r","m","i","s","s","i","o","n"," ","d","e","n","i","e","d">>
W_operator == <<"o","p","e","r","a","t","o","r">>
W_password == <<"p","a","s","s","w","o","r","d">>
W_incorrect == <<"i","n","c","o","r","r","e","c","t">>
W_wrong == <<"w","r","o","n","g">>
W_sorry == <<"s","o","r","r","y">>
W_try_again == <<"t","r","y"," ","a","g","a","i","n">>

\* What a failing command of the model prints on one stream.
T_x == <<"x">>
T_blank == <<" ">>
T_denied == <<"A","c","c","e","s","s"," ","d","e","n","i","e","d","\n">>
T_sorry == <<"S","o","r","r","y">>
T_badpw == <<"i","n","c","o","r","r","e","c","t"," ","p","a","s","s","w","o","r","d">>
Texts == {<<>>, T_x, T_blank, T_denied, T_sorry, T_badpw}

\* result.stderr.strip() if result.stderr else result.stdout.strip()
ErrorMsg(stderr, stdout) == IF stderr # <<>> THEN Strip(stderr) ELSE Strip(stdout)

---------------------------------------------------------------------------
(* Session operations *)

\* How an external command run with a timeout ends.
CmdOutcomes == {"zero", "nonzero", "timeout", "not_found"}
\* How one run without a timeout ends: it may never end.
UnboundedOutcomes == {"zero", "nonzero", "not_found", "hang"}

\* How a command run through sudo with a timeout ends.  The child is root's:
\* when the time limit expires the kill may be refused (PermissionError), and
\* subprocess.run() then waits for the child, which exits on its own
\* ("kill_refused") or never does ("kill_refused_hang").
SudoOutcomes == CmdOutcomes \cup {"kill_refused", "kill_refused_hang"}

\* The probes of check_daemon_running(), in the order they are run.
ProbeStates == [user : CmdOutcomes, system : CmdOutcomes, fallback : CmdOutcomes]

\* The commands that change the daemon's state.
StateChanging ==
    {"up", "down", "logout", "switch", "sudo_n_switch", "sudo_S_switch",
     "set_exit_node", "clear_exit_node"}

\* What an operation returns: the pair (ok, message); the message is named,
\* with the text it embeds as detail.
Result(ok, msg, detail) == [t |-> "result", ok |-> ok, msg |-> msg, detail |-> detail]

\* An operation's outcome: what it returned and the commands it launched.
Outcome(r, c) == [ret |-> r, cmds |-> c]

DaemonNotRunning == Result(PyFalse, "daemon_not_running", PyNone)

\* The fallback probe: True if the status command ran at all.
FallbackProbe(p) ==
    Outcome(PyBool(p.fallback \in {"zero", "nonzero"}), <<Cmd("status", p.fallback)>>)

\* check_daemon_running(): its answer and the probes it ran.
check_daemon_running(p) ==
    LET user == <<Cmd("systemctl_user_is_active", p.user)>>
        system == <<Cmd("systemctl_is_active", p.system)>>
    IN  IF p.user = "zero" THEN Outcome(PyTrue, user)
        ELSE IF p.user = "nonzero"
             THEN IF p.system \in {"zero", "nonzero"}
                  THEN Outcome(PyBool(p.system = "zero"), user \o system)
                  ELSE Outcome(FallbackProbe(p).ret,
                               user \o system \o FallbackProbe(p).cmds)
        ELSE Outcome(FallbackProbe(p).ret, user \o FallbackProbe(p).cmds)

\* What a failing command prints: on one stream, or on both.
Outputs ==
    {[stderr |-> e, stdout |-> <<>>] : e \in Texts}
    \cup {[stderr |-> <<>>, stdout |-> o] : o \in Texts}
    \cup {[stderr |-> T_x, stdout |-> T_denied], [stderr |-> T_blank, stdout |-> T_denied]}

Ended(out) == [out |-> out, stderr |-> <<>>, stdout |-> <<>>]
Failed(out, printed) == [out |-> out, stderr |-> printed.stderr, stdout |-> printed.stdout]

\* How a command run with a timeout ends, with what it printed when it failed.
RunOutcomes ==
    {Ended("zero"), Ended("timeout"), Ended("not_found")}
    \cup {Failed("nonzero", o) : o \in Outputs}

\* How the child of switch_to_profile_with_sudo() ends: when the time limit
\* expires, process.kill() kills it, or is refused and raises.
SudoRunOutcomes == RunOutcomes \cup {Ended("kill_refused")}

\* How `tailscale up`, launched detached, stands after the grace window.
UpOutcomes ==
    {Ended("not_found"), Ended("running")} \cup {Failed("exited", o) : o \in Outputs}

\* The error text _do_login() takes from an exited process.
LoginErrorMsg(stderr, stdout) ==
    IF stderr # <<>> /\ Strip(stderr) # <<>> THEN Strip(stderr)
    ELSE IF stdout # <<>>
            /\ (IsSubstr(W_denied, Lower(Strip(stdout)))
                \/ IsSubstr(W_access, Lower(Strip(stdout))))
         THEN Strip(stdout)
    ELSE <<>>

PermissionPhrases ==
    {W_access_denied, W_profiles_access_denied, W_permission_denied, W_operator}

\* _do_login(): launch `tailscale up` and look at it after the grace window.
do_login(up) ==
    LET launched == <<CmdText("up", up.out, up.stderr, up.stdout)>>
        error_msg == LoginErrorMsg(up.stderr, up.stdout)
    IN  IF up.out = "not_found"
        THEN Outcome(Result(PyFalse, "error_during_connection", PyNone), launched)
        ELSE IF up.out = "running"
        THEN Outcome(Result(PyTrue, "connecting", PyNone), launched)
        ELSE IF error_msg = <<>>
        THEN Outcome(Result(PyFalse, "exited_unexpectedly", PyNone), launched)
        ELSE IF \E ph \in PermissionPhrases : IsSubstr(ph, Lower(error_msg))
        THEN Outcome(Result(PyFalse, "permission_denied", PyNone), launched)
        ELSE Outcome(Result(PyFalse, "connection_failed", PyStr(error_msg)), launched)

\* login() without its look at is_connected().
login_NoConnectedCheck(p, so, so2, up) ==
    LET chk == check_daemon_running(p)
    IN  IF ~Truthy(chk.ret) THEN Outcome(DaemonNotRunning, chk.cmds)
        ELSE Outcome(do_login(up).ret, chk.cmds \o do_login(up).cmds)

\* login(): so is the status is_connected() reads, so2 the one
\* get_current_user() reads after it.
login(p, so, so2, up) ==
    LET chk == check_daemon_running(p)
        q1 == <<Cmd("status_json", so.out)>>
        q2 == <<Cmd("status_json", so2.out)>>
    IN  IF ~Truthy(chk.ret) THEN Outcome(DaemonNotRunning, chk.cmds)
        ELSE IF is_connected(so) = Hung THEN Outcome(Hung, chk.cmds \o q1)
        ELSE IF Truthy(is_connected(so))
        THEN IF get_current_user(so2) = Hung THEN Outcome(Hung, chk.cmds \o q1 \o q2)
             ELSE IF Truthy(get_current_user(so2))
             THEN Outcome(Result(PyTrue, "already_connected_as", get_current_user(so2)),
                          chk.cmds \o q1 \o q2)
             ELSE Outcome(Result(PyTrue, "already_connected", PyNone),
                          chk.cmds \o q1 \o q2)
        ELSE Outcome(do_login(up).ret, chk.cmds \o q1 \o do_login(up).cmds)

\* switch_account(): log out if connected, then _do_login().  so is the status
\* get_available_accounts() reads, so2 the one is_connected() reads.
switch_account(p, so, so2, lo, up) ==
    LET chk == check_daemon_running(p)
        q == <<Cmd("status_json", so.out), Cmd("status_json", so2.out)>>
        out == <<Cmd("logout", lo)>>
    IN  IF ~Truthy(chk.ret) THEN Outcome(DaemonNotRunning, chk.cmds)
        ELSE IF get_available_accounts(so) = Hung
        THEN Outcome(Hung, chk.cmds \o <<q[1]>>)
        ELSE IF is_connected(so2) = Hung THEN Outcome(Hung, chk.cmds \o q)
        ELSE IF ~Truthy(is_connected(so2))
        THEN Outcome(do_login(up).ret, chk.cmds \o q \o do_login(up).cmds)
        ELSE IF lo = "timeout"
        THEN Outcome(Result(PyFalse, "logout_timed_out", PyNone), chk.cmds \o q \o out)
        ELSE IF lo = "not_found"
        THEN Outcome(Result(PyFalse, "command_not_found", PyNone), chk.cmds \o q \o out)
        ELSE Outcome(do_login(up).ret, chk.cmds \o q \o out \o do_login(up).cmds)

Switched(profile_name) == Result(PyTrue, "switched", profile_name)
TimedOut == Result(PyFalse, "timed_out", PyNone)
CommandNotFound == Result(PyFalse, "command_not_found", PyNone)
SudoRequired == Result(PyNone, "sudo_required", PyNone)

\* switch_to_profile() asking for the password as soon as the plain switch fails.
switch_to_profile_NoSudoN(p, profile_name, first, second) ==
    LET chk == check_daemon_running(p)
        c1 == <<Cmd("switch", first)>>
    IN  IF ~Truthy(chk.ret) THEN Outcome(DaemonNotRunning, chk.cmds)
        ELSE IF first = "zero" THEN Outcome(Switched(profile_name), chk.cmds \o c1)
        ELSE IF first = "timeout" THEN Outcome(TimedOut, chk.cmds \o c1)
        ELSE IF first = "not_found" THEN Outcome(CommandNotFound, chk.cmds \o c1)
        ELSE Outcome(SudoRequired, chk.cmds \o c1)

\* switch_to_profile(): the plain switch, then the sudo -n switch.
switch_to_profile(p, profile_name, first, second) ==
    LET chk == check_daemon_running(p)
        c1 == <<Cmd("switch", first)>>
        c2 == <<Cmd("sudo_n_switch", second)>>
    IN  IF ~Truthy(chk.ret) THEN Outcome(DaemonNotRunning, chk.cmds)
        ELSE IF first = "zero" THEN Outcome(Switched(profile_name), chk.cmds \o c1)
        ELSE IF first = "timeout" THEN Outcome(TimedOut, chk.cmds \o c1)
        ELSE IF first = "not_found" THEN Outcome(CommandNotFound, chk.cmds \o c1)
        ELSE IF second = "zero"
        THEN Outcome(Switched(profile_name), chk.cmds \o c1 \o c2)
        ELSE IF second = "timeout" THEN Outcome(TimedOut, chk.cmds \o c1 \o c2)
        ELSE IF second = "not_found"
        THEN Outcome(CommandNotFound, chk.cmds \o c1 \o c2)
        ELSE IF second = "kill_refused"
        THEN Outcome(Result(PyFalse, "error_switching", PyNone), chk.cmds \o c1 \o c2)
        ELSE IF second = "kill_refused_hang" THEN Outcome(Hung, chk.cmds \o c1 \o c2)
        ELSE Outcome(SudoRequired, chk.cmds \o c1 \o c2)

\* "Command failed with return code <n>", which holds none of the words below.
T_code == <<"C","o","m","m","a","n","d"," ","f","a","i","l","e","d">>

\* The message switch_to_profile_with_sudo() gives for a non-zero exit.
SudoFailure(stderr, stdout) ==
    LET error_msg == ErrorMsg(stderr, stdout)
        error_lower == Lower(error_msg)
    IN  IF error_msg = <<>> THEN Result(PyFalse, "failed_to_switch", PyStr(T_code))
        ELSE IF IsSubstr(W_password, error_lower)
                /\ (IsSubstr(W_incorrect, error_lower) \/ IsSubstr(W_wrong, error_lower))
        THEN Result(PyFalse, "incorrect_password", PyNone)
        ELSE IF IsSubstr(W_sorry, error_lower) \/ IsSubstr(W_try_again, error_lower)
        THEN Result(PyFalse, "sudo_auth_failed", PyNone)
        ELSE Result(PyFalse, "failed_to_switch", PyStr(error_msg))

\* The child of switch_to_profile_with_sudo() with what was written to its
\* standard input, write by write; nothing when no child was started.
SudoCmd(run, written) ==
    [cmd |-> "sudo_S_switch", out |-> run.out, stderr |-> run.stderr,
     stdout |-> run.stdout, stdin |-> written]

\* password_input = sudo_password + '\n', handed to communicate() once.
PasswordInput(sudo_password) == <<sudo_password.s \o <<"\n">>>>

\* switch_to_profile_with_sudo() naming the password in the message of a
\* failure it cannot classify.
switch_to_profile_with_sudo_NamesPassword(profile_name, sudo_password, run) ==
    LET c == <<SudoCmd(run, PasswordInput(sudo_password))>>
    IN  IF run.out = "not_found"
        THEN Outcome(Result(PyFalse, "error_switching", PyNone), <<SudoCmd(run, <<>>)>>)
        ELSE IF run.out = "timeout" THEN Outcome(TimedOut, c)
        ELSE IF run.out = "kill_refused" THEN Outcome(EXC, c)
        ELSE IF run.out = "zero" THEN Outcome(Switched(profile_name), c)
        ELSE IF SudoFailure(run.stderr, run.stdout).msg = "failed_to_switch"
        THEN Outcome(Result(PyFalse, "failed_to_switch", sudo_password), c)
        ELSE Outcome(SudoFailure(run.stderr, run.stdout), c)

\* switch_to_profile_with_sudo(): sudo -S with the password on standard input.
\* The probe state is not read.
switch_to_profile_with_sudo(profile_name, sudo_password, run) ==
    LET c == <<SudoCmd(run, PasswordInput(sudo_password))>>
    IN  IF run.out = "not_found"
        THEN Outcome(Result(PyFalse, "error_switching", PyNone), <<SudoCmd(run, <<>>)>>)
        ELSE IF run.out = "timeout" THEN Outcome(TimedOut, c)
        ELSE IF run.out = "kill_refused" THEN Outcome(EXC, c)
        ELSE IF run.out = "zero" THEN Outcome(Switched(profile_name), c)
        ELSE Outcome(SudoFailure(run.stderr, run.stdout), c)

\* logout() taking every finished run of `tailscale down` for a success.
logout_IgnoresExitCode(down) ==
    LET c == <<Cmd("down", down)>>
    IN  CASE down \in {"zero", "nonzero"} ->
                Outcome(Result(PyTrue, "disconnected", PyNone), c)
          [] down = "not_found" -> Outcome(EXC, c)
          [] down = "hang" -> Outcome(Hung, c)

\* logout(): `tailscale down`, with no check before it and no timeout;
\* FileNotFoundError is not caught.
logout(down) ==
    LET c == <<Cmd("down", down)>>
    IN  CASE down = "zero" -> Outcome(Result(PyTrue, "disconnected", PyNone), c)
          [] down = "nonzero" -> Outcome(Result(PyFalse, "error_disconnecting", PyNone), c)
          [] down = "not_found" -> Outcome(EXC, c)
          [] down = "hang" -> Outcome(Hung, c)

\* The one command of set_exit_node(): `set --exit-node <target>`, or
\* `set --exit-node=` with the empty target.
ExitNodeCmd(form, target, run) ==
    [cmd |-> form, target |-> target, out |-> run.out,
     stderr |-> run.stderr, stdout |-> run.stdout]

\* What set_exit_node() returns after its command ended.
ExitNodeResult(exit_node_name, run) ==
    IF run.out = "timeout" THEN TimedOut
    ELSE IF run.out = "not_found" THEN CommandNotFound
    ELSE IF run.out = "zero"
    THEN IF Truthy(exit_node_name)
         THEN Result(PyTrue, "exit_node_set", exit_node_name)
         ELSE Result(PyTrue, "exit_node_cleared", PyNone)
    ELSE Result(PyFalse,
                IF Truthy(exit_node_name) THEN "failed_to_set" ELSE "failed_to_clear",
                PyStr(ErrorMsg(run.stderr, run.stdout)))

\* set_exit_node() passing its argument to the set form whatever it is.
set_exit_node_AlwaysSetForm(p, exit_node_name, run) ==
    LET chk == check_daemon_running(p)
        c == <<ExitNodeCmd("set_exit_node", exit_node_name, run)>>
    IN  IF ~Truthy(chk.ret) THEN Outcome(DaemonNotRunning, chk.cmds)
        ELSE Outcome(ExitNodeResult(exit_node_name, run), chk.cmds \o c)

\* set_exit_node(): the set form for a truthy target, else the clear form.
set_exit_node(p, exit_node_name, run) ==
    LET chk == check_daemon_running(p)
        c == IF Truthy(exit_node_name)
             THEN <<ExitNodeCmd("set_exit_node", exit_node_name, run)>>
             ELSE <<ExitNodeCmd("clear_exit_node", EmptyStr, run)>>
    IN  IF ~Truthy(chk.ret) THEN Outcome(DaemonNotRunning, chk.cmds)
        ELSE Outcome(ExitNodeResult(exit_node_name, run), chk.cmds \o c)

---------------------------------------------------------------------------
(* The controller and the daemon *)

ConnectedDoc(selfPart) ==
    PyDict(Item(L_BackendState, PyStr(L_Running)) \o Item(L_HaveNodeKey, PyTrue)
           \o Item(L_AuthURL, EmptyStr) \o selfPart)

\* What the status query can yield while the session operations run.
SessionStatuses ==
    {StatusOk(ConnectedDoc(Item(L_Self, Device(S_s, N_me, A_b)))),
     StatusOk(ConnectedDoc(<<>>)),
     StatusOk(PyDict(Item(L_BackendState, PyStr(B_Stopped))
                     \o Item(L_HaveNodeKey, PyFalse))),
     StatusOk(PyDict(Item(L_BackendState, PyStr(L_Running))
                     \o Item(L_HaveNodeKey, PyTrue)
                     \o Item(L_AuthURL, PyStr(U_url)))),
     StatusExitNonzero,
     StatusNotFound,
     StatusHang}

\* Profile names, passwords and exit-node targets the caller passes.
P_w == <<"w">>
P_h == <<"h">>
Profiles == {PyStr(P_w), PyStr(P_h)}
Passwords == {PyStr(S_k1), PyStr(S_k2)}
Targets == {PyNone, EmptyStr, PyStr(A_a)}

\* No operation is running: the controller's calls are sequential.
Idle == op = "none"

\* An operation called with argument a ran to its outcome o.
Call(name, a, o) ==
    /\ op' = name
    /\ arg' = a
    /\ ret' = o.ret
    /\ cmds' = o.cmds
    /\ UNCHANGED <<status, probe, file, win>>

CheckDaemonRunning ==
    /\ Idle
    /\ Call("check_daemon_running", PyNone, check_daemon_running(probe))

Login ==
    /\ Idle
    /\ \E so2 \in SessionStatuses, up \in UpOutcomes :
           Call("login", PyNone, login(probe, status, so2, up))

SwitchAccount ==
    /\ Idle
    /\ \E so2 \in SessionStatuses, lo \in CmdOutcomes, up \in UpOutcomes :
           Call("switch_account", PyNone, switch_account(probe, status, so2, lo, up))

SwitchToProfile ==
    /\ Idle
    /\ \E profile_name \in Profiles, first \in CmdOutcomes, second \in SudoOutcomes :
           Call("switch_to_profile", profile_name,
                switch_to_profile(probe, profile_name, first, second))

SwitchToProfileWithSudo ==
    /\ Idle
    /\ \E profile_name \in Profiles, sudo_password \in Passwords, run \in SudoRunOutcomes :
           Call("switch_to_profile_with_sudo", PyList(<<profile_name, sudo_password>>),
                switch_to_profile_with_sudo(profile_name, sudo_password, run))

Logout ==
    /\ Idle
    /\ \E down \in UnboundedOutcomes : Call("logout", PyNone, logout(down))

SetExitNode ==
    /\ Idle
    /\ \E exit_node_name \in Targets, run \in RunOutcomes :
           Call("set_exit_node", exit_node_name,
                set_exit_node(probe, exit_node_name, run))

\* The caller takes the result; the controller is idle again.
Return ==
    /\ op # "none"
    /\ op' = "none"
    /\ arg' = PyNone
    /\ ret' = PyNone
    /\ cmds' = <<>>
    /\ UNCHANGED <<status, probe, file, win>>

\* The daemon and the service manager change on their own, between two
\* operations (an operation is one step of the model).
StatusChange ==
    /\ Idle
    /\ status' \in SessionStatuses \ {status}
    /\ UNCHANGED <<probe, op, arg, ret, cmds, file, win>>
ProbeChange ==
    /\ Idle
    /\ \E f \in {"user", "system", "fallback"}, o \in CmdOutcomes :
          /\ probe[f] # o
          /\ probe' = [probe EXCEPT ![f] = o]
    /\ UNCHANGED <<status, op, arg, ret, cmds, file, win>>

Init ==
    /\ status \in SessionStatuses
    /\ probe \in ProbeStates
    /\ op = "none"
    /\ arg = PyNone
    /\ ret = PyNone
    /\ cmds = <<>>
    /\ file = FileMissing
    /\ win = PyNone

Next ==
    \/ CheckDaemonRunning
    \/ Login
    \/ SwitchAccount
    \/ SwitchToProfile
    \/ SwitchToProfileWithSudo
    \/ Logout
    \/ SetExitNode
    \/ Return
    \/ StatusChange
    \/ ProbeChange

Spec == Init /\ [][Next]_vars

---------------------------------------------------------------------------
(* Properties of the session operations *)

\* The state-changing commands the last operation launched, in order.
IsStateChanging(c) == c.cmd \in StateChanging
Mutations == SelectSeq(cmds, IsStateChanging)

\* The answer check_daemon_running() gives in the current probe state.
DaemonReachable == Truthy(check_daemon_running(probe).ret)

MutatingOps ==
    {"login", "logout", "switch_to_profile", "switch_to_profile_with_sudo",
     "set_exit_node"}

\* C4: each of login, logout, switch_to_profile, switch_to_profile_with_sudo
\* and set_exit_node checks reachability first, and with the daemon
\* unreachable returns the daemon-unavailable failure having launched no
\* state-changing command.
C4_UnreachableShortCircuits ==
    op \in MutatingOps /\ ~DaemonReachable =>
        /\ cmds # <<>>
        /\ cmds[1].cmd = "systemctl_user_is_active"
        /\ ret = DaemonNotRunning
        /\ Mutations = <<>>

\* C5: login() with the daemon reachable and the session connected launches
\* no connect command, nor any other state-changing command, and what it
\* returns is success with the already-connected message, at every call.
C5_LoginIdempotent ==
    op = "login" /\ DaemonReachable /\ status.out = "ok"
                 /\ ClassifiedConnected(Snapshot) =>
        /\ Mutations = <<>>
        /\ ret # Hung =>
              /\ ret.t = "result"
              /\ ret.ok = PyTrue
              /\ ret.msg \in {"already_connected_as", "already_connected"}

C5_Witness ==
    /\ op = "login"
    /\ DaemonReachable
    /\ ret.t = "result"
    /\ ClassifiedConnected(Snapshot)
    /\ ret.msg = "already_connected_as"
    /\ ret.detail = ShortName(PyStr(N_me))
    /\ Mutations = <<>>

\* C6: switch_to_profile() runs the plain switch first and the sudo -n switch
\* only after the plain one exited non-zero; it returns escalation-required
\* only after both exited non-zero, having launched exactly those two
\* state-changing commands; after a plain switch that succeeded nothing else
\* runs.
C6_SwitchOrder ==
    op = "switch_to_profile" =>
        /\ Len(Mutations) <= 2
        /\ Mutations # <<>> => Mutations[1].cmd = "switch"
        /\ Len(Mutations) = 2 =>
              Mutations[2].cmd = "sudo_n_switch" /\ Mutations[1].out = "nonzero"
        /\ (DaemonReachable /\ Mutations[1].out = "nonzero") => Len(Mutations) = 2
        /\ ret = SudoRequired <=>
              /\ Len(Mutations) = 2
              /\ Mutations[1].out = "nonzero"
              /\ Mutations[2].out = "nonzero"

C6_Witness ==
    /\ op = "switch_to_profile"
    /\ ret = SudoRequired
    /\ Len(Mutations) = 2

---------------------------------------------------------------------------
(* Properties of the exit-node resolver: address hint, self, no match *)

\* The resolver ran on a snapshot (an object) whose Peer is a map.
ResolverRan ==
    /\ op = "get_current_exit_node"
    /\ status.out = "ok"
    /\ IsDict(Snapshot)
    /\ HasKey(Snapshot, L_Peer)
    /\ IsDict(Lookup(Snapshot, L_Peer))
    /\ ~IsExc(ExitNodeIdOf(Snapshot))

\* An address without its trailing /prefix-length.
Normalized(a) == Split0(a, "/")

\* The peers (indices into the Peer map) whose map key is the identifier id,
\* whose own ID field is id, and one of whose addresses is the hint h.
KeyMatches(v, id) ==
    {i \in 1..Len(PeerItemsOf(v)) : PeerItemsOf(v)[i].k = id.s}
IdMatches(v, id) ==
    {i \in 1..Len(PeerItemsOf(v)) : FieldIs(PeerItemsOf(v)[i].v, L_ID, id)}
AddrMatches(v, h) ==
    {i \in 1..Len(PeerItemsOf(v)) :
        LET ips == PyGet(PeerItemsOf(v)[i].v, L_TailscaleIPs, EmptyList).l
        IN  \E j \in 1..Len(ips) : Normalized(ips[j].s) = Normalized(h.s)}

\* C11: when the assignment identifier equals no Peer map key and no peer's ID
\* field, and the assignment's address hint equals one of a peer's addresses
\* once the /prefix-length is stripped from both, get_current_exit_node
\* returns such a peer.
C11_AddressHintMatch ==
    ResolverRan /\ Truthy(ExitNodeIdOf(Snapshot)) /\ Truthy(HintOf(Snapshot)) =>
        LET v == Snapshot
            id == ExitNodeIdOf(v)
            h == HintOf(v)
        IN  KeyMatches(v, id) = {} /\ IdMatches(v, id) = {} /\ AddrMatches(v, h) # {} =>
                \E i \in AddrMatches(v, h) :
                    /\ ret.t = "node"
                    /\ ret.name = Lookup(PeerItemsOf(v)[i].v, L_DNSName)
                    /\ ret.hostname = HostnameOf(PeerItemsOf(v)[i].v)

\* Self's ID is the identifier id.
SelfIs(v, id) == HasKey(v, L_Self) /\ FieldIs(Lookup(v, L_Self), L_ID, id)

\* C12: when the assignment identifier matches no peer by key, ID field or
\* address hint, get_current_exit_node returns the self device if Self's ID
\* equals the identifier, and None otherwise (self is never matched by its
\* address); with no assignment identifier it returns None.
C12_SelfLastOrNone ==
    ResolverRan =>
        LET v == Snapshot
            id == ExitNodeIdOf(v)
            h == HintOf(v)
            noPeer == /\ KeyMatches(v, id) = {}
                      /\ IdMatches(v, id) = {}
                      /\ (Truthy(h) => AddrMatches(v, h) = {})
        IN  /\ ~Truthy(id) => ret = PyNone
            /\ Truthy(id) /\ noPeer /\ SelfIs(v, id) =>
                  /\ ret.t = "node"
                  /\ ret.name = Lookup(Lookup(v, L_Self), L_DNSName)
                  /\ ret.id = id
            /\ Truthy(id) /\ noPeer /\ ~SelfIs(v, id) => ret = PyNone

\* Self was returned, no peer matching; and elsewhere None was returned
\* although Self holds the hinted address.
C12_Witness ==
    /\ ResolverRan
    /\ Truthy(HintOf(Snapshot))
    /\ KeyMatches(Snapshot, ExitNodeIdOf(Snapshot)) = {}
    /\ IdMatches(Snapshot, ExitNodeIdOf(Snapshot)) = {}
    /\ AddrMatches(Snapshot, HintOf(Snapshot)) = {}
    /\ SelfIs(Snapshot, ExitNodeIdOf(Snapshot))
    /\ ret.t = "node"
    /\ ret.name = PyStr(N_me)

---------------------------------------------------------------------------
(* Properties of the exit-node candidates *)

\* The candidate list was computed from a snapshot.
CandidatesRan ==
    /\ op = "get_available_exit_nodes"
    /\ status.out = "ok"
    /\ IsDict(Snapshot)
    /\ ret.t = "list"

\* A device record qualifies as a candidate: its capability flag is set and
\* its DNSName and its primary address are non-empty.
PrimaryAddress(d) ==
    LET ips == PyGet(d, L_TailscaleIPs, EmptyList).l
    IN  IF ips = <<>> THEN EmptyStr ELSE ips[1]
Qualifies(d) ==
    /\ FieldIs(d, L_ExitNodeOption, PyTrue)
    /\ HasKey(d, L_DNSName) /\ Lookup(d, L_DNSName) # EmptyStr
    /\ PrimaryAddress(d) # EmptyStr

\* The entry e of the list stands for the device record d.
EntryOf(e, d, isSelf) ==
    /\ e.is_self = isSelf
    /\ e.name = Lookup(d, L_DNSName)
    /\ e.ip = PrimaryAddress(d)

QualifyingPeers(v) ==
    IF HasKey(v, L_Peer)
    THEN {i \in 1..Len(PeerItemsOf(v)) : Qualifies(PeerItemsOf(v)[i].v)}
    ELSE {}
SelfQualifies(v) == HasKey(v, L_Self) /\ Qualifies(Lookup(v, L_Self))

\* C13: get_available_exit_nodes returns exactly the devices of the snapshot,
\* self and peers, whose ExitNodeOption is set and whose DNSName and primary
\* address are non-empty: every such device has its entry, and the list has
\* no other entry.
C13_ExactlyTheCandidates ==
    op = "get_available_exit_nodes" /\ status.out = "ok" /\ IsDict(Snapshot) =>
        LET v == Snapshot
            n == Cardinality(QualifyingPeers(v)) + (IF SelfQualifies(v) THEN 1 ELSE 0)
        IN  /\ ret.t = "list"
            /\ Len(ret.l) = n
            /\ SelfQualifies(v) =>
                  \E j \in 1..Len(ret.l) : EntryOf(ret.l[j], Lookup(v, L_Self), TRUE)
            /\ \A i \in QualifyingPeers(v) :
                  \E j \in 1..Len(ret.l) :
                      /\ EntryOf(ret.l[j], PeerItemsOf(v)[i].v, FALSE)
                      /\ ret.l[j].id = PyStr(PeerItemsOf(v)[i].k)
            /\ \A j \in 1..Len(ret.l) :
                  \/ SelfQualifies(v) /\ EntryOf(ret.l[j], Lookup(v, L_Self), TRUE)
                  \/ \E i \in QualifyingPeers(v) :
                        EntryOf(ret.l[j], PeerItemsOf(v)[i].v, FALSE)

\* Self and a peer are listed while another peer is left out.
C13_Witness ==
    /\ CandidatesRan
    /\ SelfQualifies(Snapshot)
    /\ QualifyingPeers(Snapshot) # {}
    /\ Len(ret.l) = 2
    /\ Len(PeerItemsOf(Snapshot)) = 2

\* The hostnames of the entries of a list, in order.
Hostnames(r) == [j \in 1..Len(r.l) |-> r.l[j].hostname]

\* C14: for every snapshot and every order of its peers, the list that
\* get_available_exit_nodes returns is in ascending order of its entries'
\* hostnames, compared by code point (case-sensitive).
C14_SortedByHostname ==
    CandidatesRan =>
        /\ \A j \in 1..(Len(ret.l) - 1) :
              ~StrLess(ret.l[j + 1].hostname.s, ret.l[j].hostname.s)
        /\ HasKey(Snapshot, L_Peer) =>
              \A f \in Perms(Len(PeerItemsOf(Snapshot))) :
                  Hostnames(get_available_exit_nodes(StatusOk(Reordered(Snapshot, f))))
                      = Hostnames(ret)

\* Three entries were collected out of order: an upper-case hostname sorts
\* before a lower-case one although it was collected after it.
C14_Witness ==
    /\ CandidatesRan
    /\ Len(ret.l) = 3
    /\ ret.l[1].hostname = EmptyStr
    /\ ret.l[2].hostname = PyStr(H_R)
    /\ ret.l[3].is_self

---------------------------------------------------------------------------
(* The nickname store as operations *)

\* The nicknames the caller passes; one holds a quote.
P_q == <<"a", "\"">>
Nicknames == Profiles \cup {PyStr(P_q)}

\* The lists of distinct nicknames.
DistinctLists ==
    UNION {{l \in [1..n -> Nicknames] : \A i, j \in 1..n : i # j => l[i] # l[j]} :
           n \in 0..Cardinality(Nicknames)}

\* What the profiles file can be when an operation starts: written by
\* save_profiles(), written by hand or by another program (compact, with
\* repeated or foreign elements, no array, no JSON), missing or unreadable.
FileStates ==
    {FileMissing, FileUnreadable}
    \cup {FileText(JsonDump(PyList(l))) : l \in DistinctLists}
    \cup {FileText(JsonDump(PyList(<<PyStr(P_w), PyStr(P_w)>>))),
          FileText(JsonDump(PyList(<<PyStr(P_w), PyStr(P_h), PyStr(P_w)>>))),
          FileText(JsonDump(PyList(<<PyInt(1), PyStr(P_w)>>))),
          FileText(<<"[", "\"", "w", "\"", ",", "\"", "h", "\"", "]">>),
          FileText(<<"[", "\"", "w", "\"", ",", "]">>),
          FileText(<<"[", "\"", "w", "\"">>),
          FileText(<<>>),
          FileText(<<"x">>),
          FileText(<<"{", "}">>),
          FileText(<<"\"", "w", "\"">>),
          FileText(<<"n", "u", "l", "l">>),
          FileText(<<"1">>)}

\* What a store operation leaves: its result, the file, and the write it made.
StoreCall(name, a, r, w) ==
    /\ op' = name
    /\ arg' = a
    /\ ret' = r.ret
    /\ file' = r.file
    /\ cmds' = IF r.wrote THEN <<Cmd("write_profiles", w)>> ELSE <<>>
    /\ UNCHANGED <<status, probe, win>>

LoadProfiles ==
    /\ Idle
    /\ StoreCall("load_profiles", PyNone, Stored(load_profiles(file), file, FALSE), "none")

AddProfile ==
    /\ Idle
    /\ \E nickname \in Nicknames, w \in WriteOutcomes :
           StoreCall("add_profile", nickname, add_profile(file, nickname, w), w)

RemoveProfile ==
    /\ Idle
    /\ \E nickname \in Nicknames, w \in WriteOutcomes :
           StoreCall("remove_profile", nickname, remove_profile(file, nickname, w), w)

InitProfiles ==
    /\ status = StatusOk(ConnectedDoc(<<>>))
    /\ probe = ProbeUp
    /\ op = "none"
    /\ arg = PyNone
    /\ ret = PyNone
    /\ cmds = <<>>
    /\ file \in FileStates
    /\ win = PyNone

NextProfiles ==
    \/ LoadProfiles
    \/ AddProfile
    \/ RemoveProfile
    \/ Return

SpecProfiles == InitProfiles /\ [][NextProfiles]_vars

---------------------------------------------------------------------------
(* Properties of the nickname store *)

\* What load_profiles() returns for the file as it is.
StoredList(f) == load_profiles(f).l
NoDuplicates(l) == \A i, j \in 1..Len(l) : i # j => l[i] # l[j]
Count(l, x) == Cardinality({i \in 1..Len(l) : l[i] = x})

\* A step is a call of add_profile or remove_profile on a duplicate-free
\* stored list.
StoreStep(name) == Idle /\ op' = name /\ NoDuplicates(StoredList(file))

\* C15 as stated: after add_profile or remove_profile on a duplicate-free
\* stored list the loaded list has no duplicates; after add_profile(n) it
\* holds n exactly once; add_profile(n) of a stored n returns False and leaves
\* the file as it was.
C15_AddThenLoadOnce ==
    [][/\ StoreStep("add_profile") \/ StoreStep("remove_profile") =>
             NoDuplicates(StoredList(file'))
       /\ StoreStep("add_profile") =>
             /\ Count(StoredList(file'), arg') = 1
             /\ InList(arg', load_profiles(file)) =>
                   ret' = PyFalse /\ file' = file /\ cmds' = <<>>]_vars

\* C15, amended: after add_profile or remove_profile on a duplicate-free
\* stored list the loaded list has no duplicates; after add_profile(n) it
\* holds n at most once, and exactly once when the call returned True or n was
\* stored before; when the write failed the call returns False and the loaded
\* list does not hold n; add_profile(n) of a stored n returns False and leaves
\* the file as it was.
C15_NoDuplicates ==
    [][/\ StoreStep("add_profile") \/ StoreStep("remove_profile") =>
             NoDuplicates(StoredList(file'))
       /\ StoreStep("add_profile") =>
             /\ Count(StoredList(file'), arg') <= 1
             /\ ret' = PyTrue => Count(StoredList(file'), arg') = 1
             /\ InList(arg', load_profiles(file)) =>
                   /\ ret' = PyFalse /\ file' = file /\ cmds' = <<>>
                   /\ Count(StoredList(file'), arg') = 1
             /\ ~InList(arg', load_profiles(file)) /\ ret' = PyFalse =>
                   Count(StoredList(file'), arg') = 0]_vars

\* A second add of a stored nickname was refused and nothing was written.
C15_Witness ==
    /\ op = "add_profile"
    /\ ret = PyFalse
    /\ cmds = <<>>
    /\ Count(StoredList(file), arg) = 1
    /\ Len(StoredList(file)) = 3

\* C16: remove_profile(n) for a nickname n that is not in the stored list
\* returns False, writes nothing and leaves the file as it was.
C16_RemoveAbsent ==
    [][Idle /\ op' = "remove_profile" /\ ~InList(arg', load_profiles(file)) =>
           /\ ret' = PyFalse
           /\ cmds' = <<>>
           /\ file' = file]_vars

\* remove_profile() of a nickname that is not stored returned False with a
\* non-empty list on file.
C16_Witness ==
    /\ op = "remove_profile"
    /\ ret = PyFalse
    /\ cmds = <<>>
    /\ ~InList(arg, load_profiles(file))
    /\ Len(StoredList(file)) = 2

\* C17: load_profiles() raises nothing; it returns the stored array when the
\* file holds a JSON array, and the empty list when the file is missing, is
\* not readable, holds no valid JSON or holds JSON that is no array.
C17_LoadDefaults ==
    op = "load_profiles" =>
        /\ ~IsExc(ret)
        /\ IF file.kind = "text" /\ ~IsExc(JsonLoad(file.text))
              /\ JsonLoad(file.text).t = "list"
           THEN ret = JsonLoad(file.text)
           ELSE ret = EmptyList

\* The file holds JSON that is no array and the empty list was returned.
C17_Witness ==
    /\ op = "load_profiles"
    /\ file.kind = "text"
    /\ ~IsExc(JsonLoad(file.text))
    /\ JsonLoad(file.text) = PyStr(<<"w">>)
    /\ ret = EmptyList

---------------------------------------------------------------------------
(* Properties of logout, set_exit_node and login *)

\* C18: logout() launches `tailscale down` once and nothing else, does not
\* return while the command runs, and returns success exactly when the
\* command exited with code 0; after a non-zero exit it returns failure.
C18_LogoutOnce ==
    op = "logout" =>
        /\ Len(cmds) = 1
        /\ cmds[1].cmd = "down"
        /\ ret = Hung <=> cmds[1].out = "hang"
        /\ (ret.t = "result" /\ ret.ok = PyTrue) <=> cmds[1].out = "zero"
        /\ cmds[1].out = "nonzero" => ret.t = "result" /\ ret.ok = PyFalse

\* `tailscale down` exited with a non-zero code and logout() returned failure.
C18_Witness ==
    /\ op = "logout"
    /\ cmds = <<Cmd("down", "nonzero")>>
    /\ ret.t = "result"
    /\ ret.ok = PyFalse

\* C19: with the daemon reachable set_exit_node(target) launches one
\* state-changing command, as its last command: `set --exit-node <target>`
\* for a target that is given, `set --exit-node=` for None (and for the empty
\* string); it returns a result, success exactly when that command exited
\* with code 0.
C19_SetExitNodeOnce ==
    op = "set_exit_node" /\ DaemonReachable =>
        /\ Len(Mutations) = 1
        /\ Mutations[1] = cmds[Len(cmds)]
        /\ Truthy(arg) =>
              Mutations[1].cmd = "set_exit_node" /\ Mutations[1].target = arg
        /\ arg \in {PyNone, EmptyStr} =>
              Mutations[1].cmd = "clear_exit_node" /\ Mutations[1].target = EmptyStr
        /\ ret.t = "result"
        /\ ret.ok = PyTrue <=> Mutations[1].out = "zero"

\* set_exit_node(None) ran the clear form, which exited with code 0.
C19_Witness ==
    /\ op = "set_exit_node"
    /\ DaemonReachable
    /\ arg = PyNone
    /\ Len(Mutations) = 1
    /\ Mutations[1].cmd = "clear_exit_node"
    /\ Mutations[1].out = "zero"
    /\ ret = Result(PyTrue, "exit_node_cleared", PyNone)

\* The session is not connected by the snapshot login() reads.
NotConnected == ~(status.out = "ok" /\ ClassifiedConnected(Snapshot))

IsUp(c) == c.cmd = "up"
\* One of the two streams of an exited process tells of a denial.
TellsDenial(text) ==
    \/ IsSubstr(W_access_denied, Lower(text))
    \/ IsSubstr(W_permission_denied, Lower(text))
DenialCaptured(c) == TellsDenial(c.stderr) \/ TellsDenial(c.stdout)

\* C20: with the daemon reachable and the session not connected login()
\* launches `tailscale up` once and no other state-changing command, and
\* returns success exactly when the process is still running after the grace
\* window; when the process exited and its captured output tells of an access
\* or permission denial, the failure is the operator-permission hint.
C20_LoginLaunch ==
    op = "login" /\ DaemonReachable /\ NotConnected =>
        /\ Len(Mutations) = 1
        /\ IsUp(Mutations[1])
        /\ ret.t = "result"
        /\ ret.ok = PyTrue <=> Mutations[1].out = "running"
        /\ Mutations[1].out = "exited" /\ DenialCaptured(Mutations[1]) =>
              ret.msg = "permission_denied"

---------------------------------------------------------------------------
(* Properties of the operations' results *)

\* C21: login, logout, switch_to_profile, switch_to_profile_with_sudo and
\* set_exit_node end by returning a (success, message) result and raise
\* nothing, whether the executable is missing, the command exits non-zero or
\* the command times out.
C21_ResultNeverRaise ==
    op \in MutatingOps => ret.t = "result"

\* C22: every command an operation runs is bounded by a timeout, so every
\* operation returns to its caller, also when a command it runs never exits.
C22_AlwaysReturns == op # "none" => ret # Hung

---------------------------------------------------------------------------
(* Properties of the password *)

\* How the one command of the last operation ended, with what it printed.
LastRun == [out |-> cmds[1].out, stderr |-> cmds[1].stderr, stdout |-> cmds[1].stdout]

\* C24: what switch_to_profile_with_sudo() returns is what it returns for the
\* same profile name and the same exit and output of the child with any other
\* password; the password, with its newline, is written to the standard input
\* of the child once, and to no other command.
C24_PasswordIndependent ==
    op = "switch_to_profile_with_sudo" =>
        /\ Len(cmds) = 1
        /\ \A pw \in Passwords :
              switch_to_profile_with_sudo(arg.l[1], pw, LastRun).ret = ret
        /\ cmds[1].out # "not_found" =>
              cmds[1].stdin = <<arg.l[2].s \o <<"\n">>>>
        /\ cmds[1].out = "not_found" => cmds[1].stdin = <<>>

\* The child refused the password: the message says so without naming it.
C24_Witness ==
    /\ op = "switch_to_profile_with_sudo"
    /\ arg.l[2] = PyStr(S_k2)
    /\ cmds[1].out = "nonzero"
    /\ cmds[1].stdin = <<S_k2 \o <<"\n">>>>
    /\ ret = Result(PyFalse, "incorrect_password", PyNone)

---------------------------------------------------------------------------
(* Properties of the queries when the status query fails *)

\* The status command exited non-zero or printed text that is no JSON.
StatusQueryFailed == status.out \in {"exit_nonzero", "bad_json"}

\* C25: when the status command exits non-zero or prints invalid JSON,
\* is_connected() returns False, get_devices() and get_available_exit_nodes()
\* return the empty list, and get_current_exit_node() and get_current_user()
\* return None.
C25_DefaultsOnFailure ==
    StatusQueryFailed =>
        /\ op = "is_connected" => ret = PyFalse
        /\ op \in {"get_devices", "get_available_exit_nodes"} => ret = EmptyList
        /\ op \in {"get_current_exit_node", "get_current_user"} => ret = PyNone

\* get_devices() returned the empty list after the status command printed
\* invalid JSON.
C25_Witness ==
    /\ op = "get_devices"
    /\ status = StatusBadJson
    /\ cmds = <<Cmd("status_json", "bad_json")>>
    /\ ret = EmptyList

---------------------------------------------------------------------------
(* Properties of the device list *)

DevicesRan == op = "get_devices" /\ status.out = "ok"

\* What an entry shows of a device record: absent fields show as 'Unknown'
\* and as not online.
NameShown(d) == IF HasKey(d, L_DNSName) THEN Lookup(d, L_DNSName) ELSE PyStr(L_Unknown)
AddressShown(d) ==
    IF HasKey(d, L_TailscaleIPs) /\ Lookup(d, L_TailscaleIPs).l # <<>>
    THEN Lookup(d, L_TailscaleIPs).l[1] ELSE PyStr(L_Unknown)
OnlineShown(d) == IF HasKey(d, L_Online) THEN Lookup(d, L_Online) ELSE PyFalse

PeersListed(v) == IF HasKey(v, L_Peer) THEN PeerItemsOf(v) ELSE <<>>

\* C26: get_devices() returns the self device first, marked is_self, then one
\* entry for each entry of the Peer map, in the map's order, with that peer's
\* DNSName, first address and Online flag: no peer is left out and none
\* appears twice.
C26_SelfThenPeers ==
    DevicesRan =>
        /\ ret.t = "list"
        /\ LET off == IF HasKey(Snapshot, L_Self) THEN 1 ELSE 0
               peers == PeersListed(Snapshot)
           IN  /\ Len(ret.l) = off + Len(peers)
               /\ off = 1 =>
                     /\ ret.l[1].is_self
                     /\ ret.l[1].name = NameShown(Lookup(Snapshot, L_Self))
                     /\ ret.l[1].ip = AddressShown(Lookup(Snapshot, L_Self))
               /\ \A i \in 1..Len(peers) :
                     /\ ~ret.l[off + i].is_self
                     /\ ret.l[off + i].name = NameShown(peers[i].v)
                     /\ ret.l[off + i].ip = AddressShown(peers[i].v)
                     /\ ret.l[off + i].online = OnlineShown(peers[i].v)

\* Self and two peers holding the same record, which is not online: three
\* entries, self first.
C26_Witness ==
    /\ DevicesRan
    /\ Len(ret.l) = 3
    /\ ret.l[1].is_self
    /\ PeersListed(Snapshot)[1].v = PeersListed(Snapshot)[2].v
    /\ ret.l[2] = ret.l[3]
    /\ ret.l[2].online = PyFalse

---------------------------------------------------------------------------
(* Properties of the order of the nicknames *)

\* The list l without its element at i.
Without(l, i) == SubSeq(l, 1, i - 1) \o SubSeq(l, i + 1, Len(l))

\* a holds elements of b, in the order they have in b.
IsSubsequence(a, b) ==
    \E f \in [1..Len(a) -> 1..Len(b)] :
        /\ \A i \in 1..Len(a) : a[i] = b[f[i]]
        /\ \A i, j \in 1..Len(a) : i < j => f[i] < f[j]

\* C27 as stated: add_profile(n) of a nickname that is not stored leaves the
\* stored list with n appended, and remove_profile(n) of a stored nickname
\* leaves it without n and otherwise as it was.
C27_AppendsAndDeletesOnly ==
    [][/\ Idle /\ op' = "add_profile" /\ ~InList(arg', load_profiles(file)) =>
             StoredList(file') = Append(StoredList(file), arg')
       /\ Idle /\ op' = "remove_profile" /\ InList(arg', load_profiles(file)) =>
             \E i \in 1..Len(StoredList(file)) :
                 /\ StoredList(file)[i] = arg'
                 /\ StoredList(file') = Without(StoredList(file), i)]_vars

\* C27, amended: add_profile(n) that returns True leaves the stored list
\* with n appended; remove_profile(n) that returns True leaves it without the
\* first n and otherwise as it was; a call that returns False leaves the list
\* as it was or, when the write failed, empty; after every call the stored
\* nicknames are in the order in which they were inserted.
C27_InsertionOrder ==
    [][Idle /\ op' \in {"add_profile", "remove_profile"} =>
           /\ op' = "add_profile" /\ ret' = PyTrue =>
                 /\ ~InList(arg', load_profiles(file))
                 /\ StoredList(file') = Append(StoredList(file), arg')
           /\ op' = "remove_profile" /\ ret' = PyTrue =>
                 \E i \in 1..Len(StoredList(file)) :
                     /\ StoredList(file)[i] = arg'
                     /\ \A j \in 1..(i - 1) : StoredList(file)[j] # arg'
                     /\ StoredList(file') = Without(StoredList(file), i)
           /\ ret' = PyFalse =>
                 /\ StoredList(file') \in {StoredList(file), <<>>}
                 /\ cmds' = <<>> => file' = file
           /\ IsSubsequence(StoredList(file'), Append(StoredList(file), arg'))]_vars

\* The nickname added last is last in the stored list, after two nicknames
\* that sort after it.
C27_Witness ==
    /\ op = "add_profile"
    /\ ret = PyTrue
    /\ arg = PyStr(P_h)
    /\ StoredList(file) = <<PyStr(P_w), PyStr(P_q), PyStr(P_h)>>

---------------------------------------------------------------------------
(* The window *)

\* TailscaleWindow: the widgets the refresh pass sets, the GTK main loop with
\* its idle queue, and the worker threads the click handlers start.  The
\* main thread runs one handler at a time; a refresh pass is three steps,
\* one for each place it asks the controller whether the session is
\* connected, and the daemon may change between two of them.  The profiles
\* file is not changed while the window is open (on_add_profile and
\* on_remove_profile are the store's operations of SpecProfiles), and the
\* turn-off button stays insensitive, as no snapshot of WindowStatuses names
\* an exit node in use.

\* The most click-started work (threads and queued callbacks) at a time.
MaxThreads == 2

WindowConnected == StatusOk(ConnectedDoc(Item(L_Self, Device(S_s, N_me, A_b))))
WindowStopped ==
    StatusOk(PyDict(Item(L_BackendState, PyStr(B_Stopped))
                    \o Item(L_HaveNodeKey, PyFalse)))

\* What the status query can yield while the window is open.
WindowStatuses == {WindowConnected, WindowStopped, StatusHang}

\* How the commands of the window's threads end.
WindowUp == {Ended("running"), Failed("exited", [stderr |-> T_x, stdout |-> <<>>])}
WindowSwitch == {"zero", "nonzero"}
WindowRun == {Ended("zero"), Ended("timeout")}

\* threading.Thread(target=..., daemon=True).start(): a thread about to run
\* its target.  `shown` tells whether the profile button the target holds is
\* still in the window.
Thread(target, a) ==
    [target |-> target, arg |-> a, shown |-> TRUE, pc |-> "start",
     todo |-> <<>>, res |-> PyNone]

\* GLib.idle_add(callback, ...): a callback waiting for the main loop, queued
\* by thread t for the profile button of `nickname` (PyNone for another
\* widget).
Callback(cb, ok, t, nickname) ==
    [cb |-> cb, ok |-> ok, from |-> t.target, arg |-> t.arg,
     nickname |-> nickname, shown |-> t.shown]

\* The profiles file while the window is open.
WindowFile == FileText(JsonDump(PyList(<<PyStr(P_w)>>)))

\* What refresh_devices() puts in the device list (it stays cleared when
\* a query never ends or raises).
DeviceList(so) ==
    IF is_connected(so) = Hung THEN "empty"
    ELSE IF ~Truthy(is_connected(so)) THEN "not_connected"
    ELSE IF IsExc(get_devices(so)) THEN "empty"
    ELSE IF ~Truthy(get_devices(so)) THEN "no_devices"
    ELSE "rows"

\* The addresses refresh_exit_nodes() maps the combo's entries to.
ExitNodeIps(exit_nodes) == [i \in 1..Len(exit_nodes.l) |-> exit_nodes.l[i].ip]

\* What the controller answers the refresh pass, for every state of the
\* daemon and of the profiles file the window meets.
Answers ==
    [so \in WindowStatuses |->
        [is_connected |-> is_connected(so),
         exit_nodes |-> IF get_available_exit_nodes(so) = Hung THEN <<>>
                        ELSE ExitNodeIps(get_available_exit_nodes(so)),
         device_list |-> DeviceList(so)]]
Saved == [f \in {WindowFile} |-> load_profiles(f).l]

\* The window after __init__ built its widgets, about to run the
\* refresh_status() that ends __init__.
WindowBuilt ==
    [main |-> "refresh_status",
     status_label |-> "checking",
     login_button |-> TRUE,
     logout_button |-> TRUE,
     exit_node_combo |-> TRUE,
     exit_node_map |-> <<>>,
     device_list |-> "empty",
     profile_buttons |-> <<>>,
     dialogs |-> <<>>,
     threads |-> <<>>,
     idle |-> <<>>,
     on_main |-> "none"]

\* The main loop is between two handlers, and no modal dialog is open.
MainLoop == win.main = "loop"
WindowActive == MainLoop /\ win.dialogs = <<>>
Room == Len(win.threads) + Len(win.idle) < MaxThreads

\* A handler of the main thread changed the window to w.
Handled(w) ==
    /\ win' = w
    /\ UNCHANGED <<status, probe, op, arg, ret, cmds, file>>

\* auto_refresh(), every 5 seconds: a refresh pass begins.
auto_refresh ==
    /\ MainLoop
    /\ Handled([win EXCEPT !.main = "refresh_status"])

\* The main thread blocked in a status query that never ends.
Blocked == [win EXCEPT !.main = "blocked", !.on_main = "status_json"]

\* refresh_profiles(): a new button for every stored nickname; the buttons
\* the threads, the callbacks and the dialogs hold are no longer shown.
Removed(s) == [i \in 1..Len(s) |-> [s[i] EXCEPT !.shown = FALSE]]
refresh_profiles(w) ==
    [w EXCEPT !.profile_buttons = [i \in 1..Len(Saved[file]) |->
                                      [nickname |-> Saved[file][i],
                                       sensitive |-> TRUE]],
              !.threads = Removed(w.threads),
              !.idle = Removed(w.idle),
              !.dialogs = Removed(w.dialogs)]

\* refresh_status() up to its call of refresh_exit_nodes(): the label and
\* the two buttons from is_connected(), then refresh_profiles().
refresh_status ==
    /\ win.main = "refresh_status"
    /\ IF Answers[status].is_connected = Hung THEN Handled(Blocked)
       ELSE LET connected == Truthy(Answers[status].is_connected) IN
            Handled(refresh_profiles(
                [win EXCEPT !.main = "refresh_exit_nodes",
                            !.on_main = "status_json",
                            !.status_label = IF connected THEN "connected"
                                             ELSE "disconnected",
                            !.login_button = ~connected,
                            !.logout_button = connected]))

\* refresh_exit_nodes(): the combo's entries, with the first one ("None")
\* selected as no snapshot of WindowStatuses names an exit node, then the
\* combo's sensitivity from a second is_connected().
refresh_exit_nodes ==
    /\ win.main = "refresh_exit_nodes"
    /\ IF Answers[status].is_connected = Hung THEN Handled(Blocked)
       ELSE Handled([win EXCEPT
                !.main = "refresh_devices",
                !.exit_node_map = Answers[status].exit_nodes,
                !.exit_node_combo = Truthy(Answers[status].is_connected)])

\* refresh_devices(): the device list from a third is_connected(); the pass
\* is over.
refresh_devices ==
    /\ win.main = "refresh_devices"
    /\ IF Answers[status].is_connected = Hung THEN Handled(Blocked)
       ELSE Handled([win EXCEPT !.main = "loop",
                                !.device_list = Answers[status].device_list])

\* on_login(): the button is disabled and login_thread started.
on_login ==
    /\ WindowActive /\ Room /\ win.login_button
    /\ Handled([win EXCEPT !.login_button = FALSE,
                           !.threads = @ \o <<Thread("login_thread", PyNone)>>])

\* on_logout(): the button is disabled and logout_thread started.
on_logout ==
    /\ WindowActive /\ Room /\ win.logout_button
    /\ Handled([win EXCEPT !.logout_button = FALSE,
                           !.threads = @ \o <<Thread("logout_thread", PyNone)>>])

\* on_profile_clicked(): the clicked button is disabled and switch_thread
\* started.
on_profile_clicked ==
    /\ WindowActive /\ Room
    /\ \E i \in 1..Len(win.profile_buttons) :
          /\ win.profile_buttons[i].sensitive
          /\ Handled([win EXCEPT
                 !.profile_buttons[i].sensitive = FALSE,
                 !.threads = @ \o <<Thread("switch_thread",
                                           win.profile_buttons[i].nickname)>>])

\* on_exit_node_changed(): the user picked another entry of the combo than
\* the selected first one (a sensitive combo has it selected: every handler
\* that enables the combo runs refresh_exit_nodes() before the main loop is
\* free again); the combo is disabled and set_exit_node_thread started with
\* the entry's address.
on_exit_node_changed ==
    /\ WindowActive /\ Room /\ win.exit_node_combo
    /\ \E i \in 1..Len(win.exit_node_map) :
          Handled([win EXCEPT
              !.exit_node_combo = FALSE,
              !.threads = @ \o <<Thread("set_exit_node_thread",
                                        win.exit_node_map[i])>>])

\* button.set_sensitive(True) on the button a handler holds: it shows in the
\* window when that button is still there.
Enabled(w, nickname, shown) ==
    [w EXCEPT !.profile_buttons =
        [i \in 1..Len(w.profile_buttons) |->
            IF shown /\ w.profile_buttons[i].nickname = nickname
            THEN [w.profile_buttons[i] EXCEPT !.sensitive = TRUE]
            ELSE w.profile_buttons[i]]]

\* The password dialog on top, which takes the user's input, and the window
\* once it is closed.
Dialog == win.dialogs[Len(win.dialogs)]
Closed == [win EXCEPT !.dialogs = SubSeq(@, 1, Len(@) - 1)]

\* on_cancel() of the password dialog.
on_cancel ==
    /\ MainLoop /\ win.dialogs # <<>>
    /\ Handled(Enabled(Closed, Dialog.nickname, Dialog.shown))

\* on_ok() of the password dialog: with a password, do_switch is started
\* with the nickname and the password; with none, the button is enabled
\* again.
on_ok ==
    /\ MainLoop /\ win.dialogs # <<>>
    /\ \E pwd \in Passwords \cup {EmptyStr} :
          IF Truthy(pwd)
          THEN Handled([Closed EXCEPT
                   !.threads = @ \o <<[Thread("do_switch",
                                              PyList(<<Dialog.nickname, pwd>>))
                                       EXCEPT !.shown = Dialog.shown]>>])
          ELSE Handled(Enabled(Closed, Dialog.nickname, Dialog.shown))

\* What a thread's target calls: the controller's operation with its
\* outcomes, when the daemon's state is so.  do_switch() deletes `pwd`,
\* which makes the name local to it: reading it for the call raises
\* UnboundLocalError before the controller is called.
TargetOutcomes(target, a, so) ==
    CASE target = "login_thread" ->
           {login(ProbeUp, so, so, up) : up \in WindowUp}
      [] target = "logout_thread" ->
           {logout(down) : down \in UnboundedOutcomes}
      [] target = "switch_thread" ->
           {switch_to_profile(ProbeUp, a, first, second) :
               first \in WindowSwitch, second \in WindowSwitch}
      [] target = "set_exit_node_thread" ->
           {set_exit_node(ProbeUp, a, run) : run \in WindowRun}
      [] target = "do_switch" -> {Outcome(EXC, <<>>)}

\* The threads the window starts, and for each of them and every state of
\* the daemon what its call can give and the state-changing commands it
\* launches.
Starts ==
    {<<"login_thread", PyNone>>, <<"logout_thread", PyNone>>}
    \cup {<<"switch_thread", n>> : n \in Profiles}
    \cup {<<"set_exit_node_thread", PyStr(ip)>> : ip \in {A_a, A_b}}
    \cup {<<"do_switch", PyList(<<n, pwd>>)>> : n \in Profiles, pwd \in Passwords}
Launched ==
    [c \in Starts, so \in WindowStatuses |->
        {[ret |-> o.ret, todo |-> SelectSeq(o.cmds, IsStateChanging)] :
            o \in TargetOutcomes(c[1], c[2], so)}]

\* The nickname of the profile button a thread holds.
Nickname(t) ==
    IF t.target = "switch_thread" THEN t.arg
    ELSE IF t.target = "do_switch" THEN t.arg.l[1]
    ELSE PyNone

\* What a thread does with the value its call gave: the callback it queues,
\* in a sequence of at most one.  login_thread and set_exit_node_thread
\* catch an exception and report it; logout_thread does not; switch_thread
\* and do_switch queue a lambda that reads the exception's name `e`, which
\* is unbound when the main loop runs it.
Queued(t, r) ==
    CASE t.target = "login_thread" ->
           <<Callback("on_login_complete", ~IsExc(r) /\ Truthy(r.ok), t, PyNone)>>
      [] t.target = "logout_thread" ->
           IF IsExc(r) THEN <<>>
           ELSE <<Callback("on_logout_complete", Truthy(r.ok), t, PyNone)>>
      [] t.target = "set_exit_node_thread" ->
           <<Callback("on_exit_node_set_complete", ~IsExc(r) /\ Truthy(r.ok),
                      t, PyNone)>>
      [] t.target = "switch_thread" ->
           IF IsExc(r) THEN <<Callback("lambda_e", FALSE, t, Nickname(t))>>
           ELSE IF r.ok = PyNone /\ r.msg = "sudo_required"
           THEN <<Callback("show_dialog", FALSE, t, Nickname(t))>>
           ELSE <<Callback("on_profile_switch_complete", Truthy(r.ok), t, Nickname(t))>>
      [] t.target = "do_switch" ->
           IF IsExc(r) THEN <<Callback("lambda_e", FALSE, t, Nickname(t))>>
           ELSE <<Callback("on_profile_switch_complete", Truthy(r.ok), t, Nickname(t))>>

\* GLib.idle_add(): show_dialog is queued with PRIORITY_HIGH, ahead of the
\* callbacks of default priority.
IdleAdd(idle, q) ==
    IF q # <<>> /\ q[1].cb = "show_dialog" THEN q \o idle ELSE idle \o q

\* The i-th thread has no command left to wait for: it is blocked for good
\* when its call never returns, else it queues its callback and ends.
Finished(w, i, r) ==
    IF r = Hung THEN [w EXCEPT !.threads[i].pc = "hung", !.threads[i].todo = <<>>]
    ELSE [w EXCEPT !.threads = Without(w.threads, i),
                   !.idle = IdleAdd(w.idle, Queued(w.threads[i], r))]

\* A thread runs its target up to the first state-changing command of the
\* controller's operation, which is then in flight.
ThreadCalls ==
    /\ \E i \in 1..Len(win.threads) :
          /\ win.threads[i].pc = "start"
          /\ \E o \in Launched[<<win.threads[i].target, win.threads[i].arg>>, status] :
                win' = IF o.todo = <<>> THEN Finished(win, i, o.ret)
                       ELSE [win EXCEPT !.threads[i].pc = "running",
                                        !.threads[i].todo = o.todo,
                                        !.threads[i].res = o.ret]
    /\ UNCHANGED <<status, probe, op, arg, ret, cmds, file>>

\* The command a thread waits for ends (one that hangs never does): the
\* operation's next state-changing command is in flight, or the thread is
\* finished.
CommandEnds ==
    /\ \E i \in 1..Len(win.threads) :
          /\ win.threads[i].pc = "running"
          /\ win.threads[i].todo[1].out # "hang"
          /\ win' = IF Len(win.threads[i].todo) > 1
                    THEN [win EXCEPT !.threads[i].todo = Tail(@)]
                    ELSE Finished(win, i, win.threads[i].res)
    /\ UNCHANGED <<status, probe, op, arg, ret, cmds, file>>

\* The main loop runs the callback at the head of the idle queue.  The
\* completion handlers enable their widget again and, but for a failed
\* disconnect, run refresh_status(); the lambda raises NameError.
RunIdle ==
    /\ MainLoop /\ win.idle # <<>>
    /\ LET c == win.idle[1]
           w == [win EXCEPT !.idle = Tail(@)]
           pass == [w EXCEPT !.main = "refresh_status"]
       IN  CASE c.cb = "on_login_complete" ->
                  Handled([pass EXCEPT !.login_button = TRUE])
             [] c.cb = "on_logout_complete" ->
                  Handled([(IF c.ok THEN pass ELSE w) EXCEPT !.logout_button = TRUE])
             [] c.cb = "on_exit_node_set_complete" ->
                  Handled([pass EXCEPT !.exit_node_combo = TRUE])
             [] c.cb = "on_profile_switch_complete" ->
                  Handled(Enabled(pass, c.nickname, c.shown))
             [] c.cb = "show_dialog" ->
                  Handled([w EXCEPT !.dialogs =
                              @ \o <<[nickname |-> c.nickname, shown |-> c.shown]>>])
             [] c.cb = "lambda_e" -> Handled(w)

\* The daemon changes on its own, at any moment.
DaemonChanges ==
    /\ status' \in WindowStatuses \ {status}
    /\ UNCHANGED <<probe, op, arg, ret, cmds, file, win>>

InitWindow ==
    /\ status \in WindowStatuses
    /\ probe = ProbeUp
    /\ op = "none"
    /\ arg = PyNone
    /\ ret = PyNone
    /\ cmds = <<>>
    /\ file = WindowFile
    /\ win = WindowBuilt

NextWindow ==
    \/ auto_refresh
    \/ refresh_status
    \/ refresh_exit_nodes
    \/ refresh_devices
    \/ on_login
    \/ on_logout
    \/ on_profile_clicked
    \/ on_exit_node_changed
    \/ on_cancel
    \/ on_ok
    \/ ThreadCalls
    \/ CommandEnds
    \/ RunIdle
    \/ DaemonChanges

SpecWindow == InitWindow /\ [][NextWindow]_vars

\* The threads run, the commands that can end do, the timer fires, and the
\* main loop runs its handlers and its idle callbacks.
SpecWindowLive ==
    /\ SpecWindow
    /\ WF_vars(ThreadCalls) /\ WF_vars(CommandEnds) /\ WF_vars(RunIdle)
    /\ WF_vars(auto_refresh) /\ WF_vars(refresh_status)
    /\ WF_vars(refresh_exit_nodes) /\ WF_vars(refresh_devices)

---------------------------------------------------------------------------
(* Properties of the window *)

\* What each widget tells about the session at the end of a refresh pass.
LabelConnected == win.status_label = "connected"
ButtonsConnected == win.logout_button /\ ~win.login_button
DevicesConnected == win.device_list # "not_connected"

\* C28: after a refresh_status pass the status label, the login and logout
\* buttons, the exit-node combo's sensitivity and the device list agree
\* about whether the session is connected, even when the daemon changed
\* while the pass ran.
C28_OneClassification ==
    [][win # PyNone /\ win.main = "refresh_devices" /\ win'.main = "loop" =>
          /\ ButtonsConnected' = LabelConnected'
          /\ win'.exit_node_combo = LabelConnected'
          /\ DevicesConnected' = LabelConnected']_vars

\* C30: no daemon command is executed on the GTK main thread, so a command
\* that hangs never blocks the main loop.
C30_NothingOnMainThread ==
    win # PyNone => win.on_main = "none" /\ win.main # "blocked"

\* The state-changing commands in flight: those the threads wait for.
InFlight == {i \in 1..Len(win.threads) : win.threads[i].pc = "running"}

\* C23: at most one state-changing daemon command is in flight at any
\* moment, whatever the user, the refresh timer and the worker threads do.
C23_OneCommandInFlight ==
    win # PyNone => Cardinality(InFlight) <= 1

\* do_switch runs for the nickname and password of a, started by on_ok();
\* the result of its call is queued for on_profile_switch_complete.
Confirmed(a) ==
    \E i \in 1..Len(win.threads) :
        win.threads[i].target = "do_switch" /\ win.threads[i].arg = a
Delivered(a) ==
    \E i \in 1..Len(win.idle) :
        /\ win.idle[i].cb = "on_profile_switch_complete"
        /\ win.idle[i].from = "do_switch" /\ win.idle[i].arg = a

\* C29: once the user confirmed a non-empty password in the dialog that an
\* escalation-required switch opened, switch_to_profile_with_sudo is called
\* with that nickname and password and its result is eventually delivered
\* to on_profile_switch_complete, as long as the main loop is not blocked
\* in a status query that never ends.
C29_ConfirmedSwitchCompletes ==
    \A nickname \in Profiles, pwd \in Passwords :
        (win # PyNone /\ Confirmed(PyList(<<nickname, pwd>>)))
            ~> (Delivered(PyList(<<nickname, pwd>>)) \/ win.main = "blocked")

---------------------------------------------------------------------------
(* Properties of the reachability probes *)

\* C33: check_daemon_running() returns True only when one of the probes it
\* ran exited with code 0, and False when every probe it ran exited
\* non-zero, timed out or could not be started.
C33_TrueOnlyOnExitZero ==
    op = "check_daemon_running" =>
        (ret = PyTrue <=> \E i \in 1..Len(cmds) : cmds[i].out = "zero")

---------------------------------------------------------------------------
(* Properties of the resolver on snapshots without Self *)

\* The peers the root-level assignment of v identifies: by map key, by ID
\* field, or by the address hint.
Identified(v) ==
    KeyMatches(v, ExitNodeIdOf(v)) \cup IdMatches(v, ExitNodeIdOf(v))
    \cup (IF Truthy(HintOf(v)) THEN AddrMatches(v, HintOf(v)) ELSE {})

\* C34: on a snapshot that has no Self entry and whose root-level
\* ExitNodeStatus or ExitNodeID identifies a peer (by map key, ID field or
\* address hint), get_current_exit_node returns such a peer.
C34_PeersWithoutSelf ==
    ResolverRan /\ ~HasKey(Snapshot, L_Self) /\ Truthy(ExitNodeIdOf(Snapshot))
                /\ Identified(Snapshot) # {} =>
        \E i \in Identified(Snapshot) :
            /\ ret.t = "node"
            /\ ret.name = Lookup(PeerItemsOf(Snapshot)[i].v, L_DNSName)

(* Properties of the commands that exceed their time limit *)
\* The commands that switch_to_profile(), switch_to_profile_with_sudo() and
\* set_exit_node() run with a time limit.
Limited == {"switch", "sudo_n_switch", "sudo_S_switch", "set_exit_node", "clear_exit_node"}

\* The command's time limit expired.
Expired(c) == c.cmd \in Limited /\ c.out \in {"timeout", "kill_refused", "kill_refused_hang"}

\* The child of the command is still running when the operation is over: the
\* kill was refused and nothing waited for the child to exit.
ChildRunning(c) ==
    \/ c.out = "kill_refused_hang"
    \/ c.cmd = "sudo_S_switch" /\ c.out = "kill_refused"

\* C35: when the switch command, the sudo -n switch command, the sudo -S
\* switch command or the exit-node command exceeds its time limit, the
\* operation returns the timed-out failure (neither success nor "sudo
\* required") and the child is no longer running.
C35_TimeoutFailsAndChildGone ==
    \A i \in 1..Len(cmds) :
        Expired(cmds[i]) => ret = TimedOut /\ ~ChildRunning(cmds[i])

(* Properties of the results of add_profile and remove_profile *)
\* C38: add_profile(n) returns True exactly when n was not stored before the
\* call and is stored after it, and False exactly when n was already stored;
\* remove_profile(n) returns False exactly when n was not stored.
C38_FalseMeansStoredOrAbsent ==
    [][/\ Idle /\ op' = "add_profile" =>
             /\ ret' = PyTrue <=> /\ ~InList(arg', load_profiles(file))
                                  /\ InList(arg', load_profiles(file'))
             /\ ret' = PyFalse <=> InList(arg', load_profiles(file))
       /\ Idle /\ op' = "remove_profile" =>
             (ret' = PyFalse <=> ~InList(arg', load_profiles(file)))]_vars

(* Properties of the controls that start background work *)
\* The operation a control started is in flight: its thread runs, or its
\* callback waits for the main loop.
Pending(targets) ==
    \/ \E i \in 1..Len(win.threads) : win.threads[i].target \in targets
    \/ \E i \in 1..Len(win.idle) : win.idle[i].from \in targets

\* C31: the login button and the exit-node combo stay insensitive from the
\* click that started the operation until its completion callback ran, the
\* timer's refresh passes included, so that the operation cannot be started
\* a second time meanwhile.
C31_DisabledWhileInFlight ==
    win # PyNone /\ MainLoop =>
        /\ Pending({"login_thread"}) => ~win.login_button
        /\ Pending({"set_exit_node_thread"}) => ~win.exit_node_combo

----------------------------------------------------------------------------
(* The exit-node menu *)

\* refresh_exit_nodes() empties the combo with at most this many remove(0).
max_attempts == 50

\* The most rows the combo of the model holds.
MaxEntries == 52

\* Devices of a tailnet: the i-th peer's key, identifier, name and address.
Digit == <<"0", "1", "2", "3", "4", "5", "6", "7", "8", "9">>
TwoDigits(i) == <<Digit[(i \div 10) + 1], Digit[(i % 10) + 1]>>
MenuKey(i) == <<"k">> \o TwoDigits(i)
MenuId(i) == <<"n">> \o TwoDigits(i)
MenuName(i) == <<"p">> \o TwoDigits(i) \o <<".", "t">>
MenuIp(i) == TwoDigits(i) \o <<".", "1">>
A_self == <<"9", "9", ".", "1">>
Mask32 == <<"/", "3", "2">>

\* A connected snapshot with n peers that can all be exit nodes, as Self can;
\* the `using`-th peer is the exit node in use (none when using = 0).
MenuDoc(n, using) ==
    ConnectedDoc(
        Item(L_Self, Device(S_s, N_me, A_self))
        \o Item(L_Peer, PyDict([i \in 1..n |->
                                   [k |-> MenuKey(i),
                                    v |-> Device(MenuId(i), MenuName(i), MenuIp(i))]]))
        \o (IF using = 0 THEN <<>>
            ELSE Item(L_ExitNodeStatus,
                      PyDict(Item(L_ID, PyStr(MenuId(using)))
                             \o Item(L_TailscaleIPs,
                                     PyList(<<PyStr(MenuIp(using) \o Mask32)>>))))))

\* The tailnets of the menu: <<n, using>> for n peers with the using-th one in
\* use; a small one, and one with as many exit nodes as the combo's emptying
\* loop has rounds.
MenuTailnets == {<<2, 0>>, <<2, 1>>, <<max_attempts - 1, 3>>}

\* What the status query can yield while the menu is used.
MenuStatuses ==
    {StatusOk(MenuDoc(nu[1], nu[2])) : nu \in MenuTailnets} \cup {WindowStopped}

\* The entries of get_available_exit_nodes() for Self and for the i-th peer
\* of MenuDoc, and the record get_current_exit_node() returns when the i-th
\* peer is in use.
SelfCandidate ==
    [t |-> "node", id |-> PyStr(S_s), name |-> PyStr(N_me), ip |-> PyStr(A_self),
     hostname |-> PyStr(Split0(N_me, ".")), is_self |-> TRUE, online |-> PyTrue,
     can_be_exit_node |-> PyTrue]
PeerCandidate(i) ==
    [t |-> "node", id |-> PyStr(MenuKey(i)), name |-> PyStr(MenuName(i)),
     ip |-> PyStr(MenuIp(i)), hostname |-> PyStr(Split0(MenuName(i), ".")),
     is_self |-> FALSE, online |-> PyTrue, can_be_exit_node |-> PyTrue]
InUse(i) ==
    [t |-> "node", id |-> PyStr(MenuId(i)), name |-> PyStr(MenuName(i)),
     ip |-> PyStr(MenuIp(i)), hostname |-> PyStr(Split0(MenuName(i), "."))]

\* What the controller answers refresh_exit_nodes() for the snapshot
\* MenuDoc(n, using): the candidates sorted by hostname (Self's sorts first),
\* the exit node in use, the connectivity.
TailnetAnswers(n, using) ==
    [exit_nodes |-> <<SelfCandidate>> \o [i \in 1..n |-> PeerCandidate(i)],
     current_exit_node |-> IF using = 0 THEN PyNone ELSE InUse(using),
     is_connected |-> TRUE]
StoppedAnswers ==
    [exit_nodes |-> <<>>, current_exit_node |-> PyNone, is_connected |-> FALSE]
MenuAnswers ==
    [so \in MenuStatuses |->
        IF so = WindowStopped THEN StoppedAnswers
        ELSE LET nu == CHOOSE nu \in MenuTailnets :
                           so = StatusOk(MenuDoc(nu[1], nu[2]))
             IN  TailnetAnswers(nu[1], nu[2])]

\* The texts of the combo's rows.
none_text == <<"N","o","n","e"," ","(","D","i","r","e","c","t"," ","C","o","n","n","e","c","t","i","o","n",")">>
T_online == <<"*">>
T_offline == <<"o">>
T_this_device == <<" ","(","T","h","i","s"," ","D","e","v","i","c","e",")">>

\* display_name: the online mark (a filled or an empty circle in the
\* program), the first label of the DNS name, the address in parentheses.
display_name(node) ==
    LET tailscale_name == node.name
        device_name == IF Truthy(tailscale_name) THEN ShortName(tailscale_name).s
                       ELSE StrOf(node.hostname)
    IN  (IF Truthy(node.online) THEN T_online ELSE T_offline)
        \o <<" ">> \o device_name \o <<" ", "(">> \o StrOf(node.ip) \o <<")">>
        \o (IF node.is_self THEN T_this_device ELSE <<>>)

\* exit_node_map.get(k)
MapGet(items, k) ==
    IF \E i \in 1..Len(items) : items[i].k = k
    THEN items[CHOOSE i \in 1..Len(items) : items[i].k = k].v
    ELSE PyNone

\* What refresh_exit_nodes() stores for a candidate.
MapEntry(node) ==
    [t |-> "info", id |-> PyStr(StrOf(node.id)), ip |-> node.ip,
     name |-> node.name, hostname |-> node.hostname]

\* The map after the loop over the candidates: a key stays where it was
\* first set and holds the value it was last set to.
MapOf(exit_nodes) ==
    LET n == Len(exit_nodes)
        text(i) == display_name(exit_nodes[i])
        first(i) == \A j \in 1..(i - 1) : text(j) # text(i)
        last(i) == CHOOSE j \in i..n : text(j) = text(i)
                                        /\ \A k \in (j + 1)..n : text(k) # text(i)
        keys == SelectSeq([i \in 1..n |-> i], first)
    IN  Item(none_text, PyNone)
        \o [x \in 1..Len(keys) |-> [k |-> text(keys[x]),
                                     v |-> MapEntry(exit_nodes[last(keys[x])])]]

\* The loop's test of a candidate against the current exit node: by
\* identifier, else by address, else by name.
IsCurrent(current_exit_node, node) ==
    LET current_id == StrOf(current_exit_node.id)
        node_id == StrOf(node.id)
    IN  \/ current_id # <<>> /\ node_id # <<>> /\ current_id = node_id
        \/ /\ Truthy(current_exit_node.ip) /\ Truthy(node.ip)
           /\ PyEq(current_exit_node.ip, node.ip)
        \/ /\ Truthy(current_exit_node.name) /\ Truthy(node.name)
           /\ PyEq(current_exit_node.name, node.name)

\* selected_index after the loop: the last candidate that passes the test,
\* 0 when there is none or no exit node is in use.
SelectedIndex(exit_nodes, current_exit_node) ==
    LET hits == IF current_exit_node = PyNone THEN {}
                ELSE {i \in 1..Len(exit_nodes) :
                         IsCurrent(current_exit_node, exit_nodes[i])}
    IN  IF hits = {} THEN 0 ELSE CHOOSE i \in hits : \A j \in hits : j <= i

\* A row of the combo.  GTK keeps the text; `node` is the candidate the row
\* was appended for (PyNone for the "None" row), which the properties read.
Row(text, node) == [text |-> text, node |-> node]

\* The rows, the map, the selection and the sensitivities refresh_exit_nodes()
\* computes from the controller's answers, for every state of the daemon.
MenuParts ==
    [so \in MenuStatuses |->
        LET exit_nodes == MenuAnswers[so].exit_nodes
            current_exit_node == MenuAnswers[so].current_exit_node
        IN  [rows |-> <<Row(none_text, PyNone)>>
                      \o [i \in 1..Len(exit_nodes) |->
                             Row(display_name(exit_nodes[i]), exit_nodes[i])],
             exit_node_map |-> MapOf(exit_nodes),
             selected_index |-> SelectedIndex(exit_nodes, current_exit_node),
             is_connected |-> MenuAnswers[so].is_connected,
             in_use |-> current_exit_node # PyNone]]

\* The window after __init__ built the combo with its "None" row selected and
\* the turn-off button disabled, about to run the refresh_status() that ends
\* __init__.  `emitted` is the number of "changed" signals the last refresh
\* emitted.
MenuBuilt ==
    [main |-> "refresh_status",
     combo |-> <<Row(none_text, PyNone)>>,
     active |-> 0,
     sensitive |-> TRUE,
     turn_off_exit_node_button |-> FALSE,
     exit_node_map |-> <<>>,
     refreshing_exit_nodes |-> FALSE,
     threads |-> <<>>,
     idle |-> <<>>,
     emitted |-> 0]

\* A thread started by a handler: `by` tells what ran the handler (the user,
\* the turn-off button, or a signal emitted by refresh_exit_nodes()).
MenuThread(target, index, row, by) ==
    [target |-> target, index |-> index, text |-> row.text, node |-> row.node,
     by |-> by]

\* on_exit_node_changed() without the test of the refreshing flag.
exit_node_changed_IgnoresFlag(w, by) ==
    IF ~w.sensitive THEN w
    ELSE IF w.active < 0 THEN w
    ELSE IF w.combo[w.active + 1].text = <<>> THEN w
    ELSE [w EXCEPT !.sensitive = FALSE,
                   !.threads = @ \o <<MenuThread("set_exit_node_thread", w.active,
                                                 w.combo[w.active + 1], by)>>]

\* on_exit_node_changed(), the handler of the combo's "changed" signal: it
\* returns during a refresh, on an insensitive combo and without a selection;
\* else it disables the combo and starts set_exit_node_thread with the
\* selected index and text.
exit_node_changed(w, by) ==
    IF w.refreshing_exit_nodes \/ ~w.sensitive THEN w
    ELSE IF w.active < 0 THEN w
    ELSE IF w.combo[w.active + 1].text = <<>> THEN w
    ELSE [w EXCEPT !.sensitive = FALSE,
                   !.threads = @ \o <<MenuThread("set_exit_node_thread", w.active,
                                                 w.combo[w.active + 1], by)>>]

\* refresh_exit_nodes(), with the flag set: at most max_attempts remove(0)
\* (a remove(0) of an empty combo does nothing and raises nothing; removing
\* the active row leaves no row active and emits "changed"), the "None" row
\* and the candidates' rows appended, the map rebuilt, set_active() (which
\* emits "changed" when the active row changes), the sensitivities; the flag
\* is cleared at the end.
RefreshedMenu(w, parts) ==
    LET removed == IF Len(w.combo) > max_attempts THEN max_attempts ELSE Len(w.combo)
        lost == w.active >= 0 /\ w.active < removed
        w1 == [w EXCEPT !.refreshing_exit_nodes = TRUE,
                        !.combo = SubSeq(@, removed + 1, Len(@)),
                        !.active = IF w.active >= removed THEN w.active - removed
                                   ELSE -1]
        w2 == IF lost THEN exit_node_changed(w1, "refresh") ELSE w1
        w3 == [w2 EXCEPT !.exit_node_map = parts.exit_node_map,
                         !.combo = @ \o parts.rows]
        moved == parts.selected_index # w3.active
        w4 == IF moved
              THEN exit_node_changed([w3 EXCEPT !.active = parts.selected_index],
                                     "refresh")
              ELSE w3
    IN  [w4 EXCEPT !.sensitive = parts.is_connected,
                   !.turn_off_exit_node_button = parts.is_connected /\ parts.in_use,
                   !.refreshing_exit_nodes = FALSE,
                   !.emitted = (IF lost THEN 1 ELSE 0) + (IF moved THEN 1 ELSE 0),
                   !.main = "loop"]

\* The refresh pass the timer or a completion handler began: its
\* refresh_exit_nodes(), with the three queries answered from one snapshot.
RefreshMenu ==
    /\ win.main = "refresh_status"
    /\ Len(RefreshedMenu(win, MenuParts[status]).combo) <= MaxEntries
    /\ Handled(RefreshedMenu(win, MenuParts[status]))

\* The rows the user picks: the first two, the last one and every "None" row.
Picks(combo) ==
    {j \in 0..(Len(combo) - 1) :
        j \in {0, 1, Len(combo) - 1} \/ combo[j + 1].text = none_text}

\* The user picks another row of the sensitive combo: "changed" is emitted.
UserSelects ==
    /\ MainLoop /\ Room /\ win.sensitive
    /\ \E j \in Picks(win.combo) :
          /\ j # win.active
          /\ Handled(exit_node_changed([win EXCEPT !.active = j], "user"))

\* on_turn_off_exit_node(): the button is disabled and clear_exit_node_thread
\* started.
on_turn_off_exit_node ==
    /\ MainLoop /\ Room /\ win.turn_off_exit_node_button
    /\ Handled([win EXCEPT
           !.turn_off_exit_node_button = FALSE,
           !.threads = @ \o <<MenuThread("clear_exit_node_thread", -1,
                                         Row(<<>>, PyNone), "button")>>])

\* re.search(r'\(([0-9.]+)\)', text): the group of the leftmost match, <<>>
\* when there is none.
IpChars == {Digit[i] : i \in 1..10} \cup {"."}
RegexIp(s) ==
    LET ends(i) == {j \in (i + 2)..Len(s) :
                       s[j] = ")" /\ \A k \in (i + 1)..(j - 1) : s[k] \in IpChars}
        starts == {i \in 1..Len(s) : s[i] = "(" /\ ends(i) # {}}
    IN  IF starts = {} THEN <<>>
        ELSE LET i == CHOOSE x \in starts : \A y \in starts : x <= y
                 j == CHOOSE x \in ends(i) : TRUE
             IN  SubSeq(s, i + 1, j - 1)

\* What set_exit_node_thread passes to set_exit_node(): None for the first
\* row or the "None" text, else the address the map holds for the text (its
\* hostname, then its name, when the address is empty), else the address
\* found in the text; no call when nothing is found.
Called(a) == [made |-> TRUE, arg |-> a]
NotCalled == [made |-> FALSE, arg |-> PyNone]
ExitNodeToUse(t, exit_node_map) ==
    IF t.index = 0 \/ t.text = none_text THEN Called(PyNone)
    ELSE LET node_info == MapGet(exit_node_map, t.text) IN
         IF node_info # PyNone
         THEN LET exit_node_to_use ==
                      IF Truthy(node_info.ip) THEN node_info.ip
                      ELSE IF Truthy(node_info.hostname) THEN node_info.hostname
                      ELSE node_info.name
              IN  IF Truthy(exit_node_to_use) THEN Called(exit_node_to_use)
                  ELSE NotCalled
         ELSE IF RegexIp(t.text) # <<>> THEN Called(PyStr(RegexIp(t.text)))
         ELSE NotCalled

\* The i-th thread made its call (c) and ended: its completion handler is
\* queued for the main loop; the entry keeps the call and what started the
\* thread.
MenuThreadEnds(i, c, cb) ==
    /\ win' = [win EXCEPT !.threads = Without(@, i),
                          !.idle = Append(@, [cb |-> cb, made |-> c.made,
                                              arg |-> c.arg,
                                              by |-> win.threads[i].by,
                                              text |-> win.threads[i].text,
                                              node |-> win.threads[i].node])]
    /\ UNCHANGED <<status, probe, op, arg, ret, cmds, file>>

\* set_exit_node_thread(): it reads the map as it is when it runs, calls
\* set_exit_node() and queues on_exit_node_set_complete with the result (or
\* with a failure when it made no call).
set_exit_node_thread ==
    \E i \in 1..Len(win.threads) :
        /\ win.threads[i].target = "set_exit_node_thread"
        /\ MenuThreadEnds(i, ExitNodeToUse(win.threads[i], win.exit_node_map),
                          "on_exit_node_set_complete")

\* clear_exit_node_thread(): set_exit_node(None), then
\* on_turn_off_exit_node_complete is queued.
clear_exit_node_thread ==
    \E i \in 1..Len(win.threads) :
        /\ win.threads[i].target = "clear_exit_node_thread"
        /\ MenuThreadEnds(i, Called(PyNone), "on_turn_off_exit_node_complete")

\* on_exit_node_set_complete(): the combo is enabled and a refresh pass runs
\* (after a failure and after a success alike; a success schedules two more).
on_exit_node_set_complete ==
    /\ MainLoop /\ win.idle # <<>> /\ win.idle[1].cb = "on_exit_node_set_complete"
    /\ Handled([win EXCEPT !.idle = Tail(@), !.sensitive = TRUE,
                           !.main = "refresh_status"])

\* on_turn_off_exit_node_complete(): the button is enabled and a refresh pass
\* runs.
on_turn_off_exit_node_complete ==
    /\ MainLoop /\ win.idle # <<>> /\ win.idle[1].cb = "on_turn_off_exit_node_complete"
    /\ Handled([win EXCEPT !.idle = Tail(@), !.turn_off_exit_node_button = TRUE,
                           !.main = "refresh_status"])

\* The daemon changes on its own, or by a command, at any moment.
MenuDaemonChanges ==
    /\ status' \in MenuStatuses \ {status}
    /\ UNCHANGED <<probe, op, arg, ret, cmds, file, win>>

InitMenu ==
    /\ status \in MenuStatuses
    /\ probe = ProbeUp
    /\ op = "none"
    /\ arg = PyNone
    /\ ret = PyNone
    /\ cmds = <<>>
    /\ file = WindowFile
    /\ win = MenuBuilt

NextMenu ==
    \/ auto_refresh
    \/ RefreshMenu
    \/ UserSelects
    \/ on_turn_off_exit_node
    \/ set_exit_node_thread
    \/ clear_exit_node_thread
    \/ on_exit_node_set_complete
    \/ on_turn_off_exit_node_complete
    \/ MenuDaemonChanges

SpecMenu == InitMenu /\ [][NextMenu]_vars

----------------------------------------------------------------------------
(* Properties of the exit-node menu *)

\* C32: a refresh causes no state-changing command: the "changed" signals
\* that refresh_exit_nodes() emits while it rebuilds the combo start no
\* thread, so that every call of set_exit_node() answers a selection of the
\* user or a click of the turn-off button.
C32_RefreshStartsNoCommand ==
    /\ \A i \in 1..Len(win.threads) : win.threads[i].by \in {"user", "button"}
    /\ \A i \in 1..Len(win.idle) : win.idle[i].by \in {"user", "button"}

\* A refresh moved the selection of a sensitive combo to a candidate's row,
\* and "changed" was emitted.
C32_Witness ==
    /\ win.main = "loop" /\ win.emitted > 0 /\ win.active > 0
    /\ win.sensitive /\ win.threads = <<>> /\ win.idle = <<>>

\* The first non-empty one of a candidate's address, hostname and DNS name.
AddressOf(node) ==
    IF Truthy(node.ip) THEN node.ip
    ELSE IF Truthy(node.hostname) THEN node.hostname ELSE node.name

\* C36: a selection of a candidate's row calls set_exit_node() with the
\* candidate's address if it is not empty, else its hostname, else its DNS
\* name; set_exit_node(None) is called exactly when the user selected the
\* "None" row or clicked the turn-off button.
C36_SelectionSetsCandidate ==
    \A i \in 1..Len(win.idle) :
        LET c == win.idle[i] IN
        /\ (c.made /\ c.arg = PyNone) <=> (c.by = "button" \/ c.text = none_text)
        /\ c.by = "user" /\ c.node # PyNone =>
               c.made /\ c.arg = AddressOf(c.node)

\* C37: after refresh_exit_nodes() the selected row is the row of the
\* candidate that is the current exit node when it is listed, and the "None"
\* row when no exit node is in use.
C37_SelectionShowsCurrent ==
    [][win.main = "refresh_status" /\ win'.main = "loop" =>
          LET exit_nodes == MenuAnswers[status].exit_nodes
              current_exit_node == MenuAnswers[status].current_exit_node
              selected == win'.combo[win'.active + 1]
          IN  /\ win'.active >= 0
              /\ current_exit_node = PyNone => selected = Row(none_text, PyNone)
              /\ \A i \in 1..Len(exit_nodes) :
                    current_exit_node # PyNone
                    /\ exit_nodes[i].name = current_exit_node.name =>
                        selected = Row(display_name(exit_nodes[i]), exit_nodes[i])]_vars

=============================================================================
